---- MODULE Spec2Model ----
(***************************************************************************)
(* flare-emu (src/flare_emu.py): the path-guided emulation engine.         *)
(*                                                                         *)
(*   - the CFG path explorer: _explore, getPath (firstPath), getPaths      *)
(*     (allPaths), isTerminatingBB;                                        *)
(*   - the forced-execution controller: iterate, _guidedHook, _targetHit,  *)
(*     stopEmulation, skipInstruction, _handleApiHooks, _isBadBranch.      *)
(*                                                                         *)
(* The static-analysis database (IDA) and the CPU emulator (Unicorn) are   *)
(* external collaborators.  The database is represented by one analysed    *)
(* image (Insn, Funcs); the emulator by the steps EmuExec / EmuReachEnd.   *)
(* The model is of the x86 build (the ARM Thumb and TBB/TBH branches of    *)
(* the hook are not taken on x86).                                         *)
(***************************************************************************)
EXTENDS Integers, Sequences, FiniteSets, TLC

(***************************************************************************)
(* Bounds of the model.                                                    *)
(***************************************************************************)
\* iterate(target=[...]): length of the target list
MaxTargets == 2
\* number of getPath / getPaths queries made in the explorer specification
MaxQueries == 3
\* largest maxPaths argument given to getPaths
MaxMaxPaths == 2
\* longest visitedTargets list of one run (a run that hits a target over and
\* over is cut here)
MaxVisited == 3

\* Python's None, where an integer is expected (a block id, a path index)
None == -1

(***************************************************************************)
(* The analysed image: instructions.                                       *)
(*   mnem   idc.print_insn_mnem(a); "" when a is not an instruction head   *)
(*   size   the size of the item in the database                           *)
(*   emu    the length the emulator decodes at a (an instruction the       *)
(*          database folds from n one-byte instructions has size n, emu 1) *)
(*   reg    operand 0 is a register (idc.get_operand_type(a, 0) == 1)      *)
(*   dests  where a branch can go                                          *)
(*   api    the call target's name is registered in apiHooks               *)
(*   zero   the 16 bytes at a are all zero in emulator memory              *)
(***************************************************************************)
Ins(m, sz, em, r, d, ap, z) ==
    [mnem |-> m, size |-> sz, emu |-> em, reg |-> r, dests |-> d, api |-> ap, zero |-> z]

Mov         == Ins("mov", 1, 1, FALSE, {}, FALSE, FALSE)
Folded(n)   == Ins("mov", n, 1, FALSE, {}, FALSE, FALSE)
ZeroMem     == Ins("add", 1, 1, FALSE, {}, FALSE, TRUE)
Jz(d)       == Ins("jz", 1, 1, FALSE, {d}, FALSE, FALSE)
Jmp(d)      == Ins("jmp", 1, 1, FALSE, {d}, FALSE, FALSE)
JmpReg(D)   == Ins("jmp", 1, 1, TRUE, D, FALSE, FALSE)
Call(ap)    == Ins("call", 2, 2, FALSE, {}, ap, FALSE)
Retn        == Ins("retn", 1, 1, FALSE, {}, FALSE, FALSE)
\* calls whose destination d is known: operand 0 a near address, a register,
\* and a near call of a routine registered in apiHooks
CallNear(d) == Ins("call", 2, 2, FALSE, {d}, FALSE, FALSE)
CallReg(d)  == Ins("call", 2, 2, TRUE, {d}, FALSE, FALSE)
CallApi(d)  == Ins("call", 2, 2, FALSE, {d}, TRUE, FALSE)

Insn ==
    \* diamond: entry, B1 (fall through), B2 (branch target), R (return block)
       (0 :> Mov)      @@ (1 :> Jz(4))
    @@ (2 :> Mov)      @@ (3 :> Jmp(5))
    @@ (4 :> Mov)
    @@ (5 :> Mov)      @@ (6 :> Retn)
    \* while loop: entry, head (call; exit test), body (jumps back), exit
    @@ (10 :> Mov)
    @@ (11 :> Call(TRUE))  @@ (13 :> Jz(16))
    @@ (14 :> Mov)     @@ (15 :> Jmp(11))
    @@ (16 :> Retn)
    \* do-while loop: entry, body (a block that branches to its own head), exit
    @@ (20 :> Mov)
    @@ (21 :> Call(TRUE))  @@ (23 :> Mov)  @@ (24 :> Jz(21))
    @@ (25 :> Retn)
    \* one block ending in a return
    @@ (30 :> Call(FALSE)) @@ (32 :> Mov)  @@ (33 :> Retn)
    \* one block ending in a call of an external no-return routine
    @@ (35 :> Mov)     @@ (36 :> Call(FALSE))
    \* switch: entry, case block, dispatch block (jmp reg), return block, and a
    \* block no edge leads to
    @@ (40 :> Mov)     @@ (41 :> Jz(46))
    @@ (42 :> Folded(2)) @@ (44 :> Call(FALSE))
    @@ (46 :> JmpReg({47, 49}))
    @@ (47 :> Mov)     @@ (48 :> Retn)
    @@ (49 :> Mov)     @@ (50 :> Retn)
    \* one block with an instruction folded from four, and zero-filled bytes
    @@ (52 :> Mov)     @@ (53 :> Folded(4)) @@ (57 :> Retn)
    @@ (60 :> Mov)     @@ (61 :> ZeroMem)   @@ (62 :> Retn)
    \* one block of calls: to zero-filled memory by address and through a
    \* register, to the routine at 52, and to a registered routine whose code is
    \* not in memory
    @@ (70 :> Mov)     @@ (71 :> CallNear(61)) @@ (73 :> CallReg(61))
    @@ (75 :> CallNear(52)) @@ (77 :> CallApi(61)) @@ (79 :> Retn)
    \* a conditional jump out of the function (to the routine at 52), then the
    \* return block
    @@ (82 :> Mov)     @@ (83 :> Jz(52))
    @@ (84 :> Mov)     @@ (85 :> Retn)

Heads == DOMAIN Insn

\* idc.print_insn_mnem
print_insn_mnem(a) == IF a \in Heads THEN Insn[a].mnem ELSE ""

\* the length of the instruction the emulator decodes at a (the hook's `size`)
EmuSize(a) == IF a \in Heads THEN Insn[a].emu ELSE 1

\* emulator memory at a is sixteen zero bytes
IsNullMem(a) == a \in Heads /\ Insn[a].zero

\* idc.prev_head(a): the last instruction head before a
RECURSIVE prev_head(_)
prev_head(a) == IF a <= 0 THEN None ELSE IF (a - 1) \in Heads THEN a - 1 ELSE prev_head(a - 1)

\* idc.next_head(a, idc.get_inf_attr(idc.INF_MAX_EA)): the first instruction
\* head after a, BADADDR (None) when there is none
next_head(a) ==
    LET later == {h \in Heads : h > a} IN
    IF later = {} THEN None ELSE CHOOSE h \in later : \A g \in later : h <= g

\* the database's SP change points: address -> change of SP recorded there
SpDelta ==
       (6 :> 4)
    @@ (11 :> -8)  @@ (13 :> 8)   @@ (14 :> -4)  @@ (16 :> 12)
    @@ (21 :> -4)  @@ (23 :> 4)   @@ (24 :> -12) @@ (25 :> 8)
    @@ (30 :> -4)  @@ (32 :> 16)  @@ (33 :> -16)
    @@ (71 :> -4)  @@ (73 :> 4)   @@ (75 :> 8)   @@ (77 :> 12) @@ (79 :> 16)

\* idaapi.get_sp_delta(userData["func_t"], a): 0 where no change is recorded
get_sp_delta(a) == IF a \in DOMAIN SpDelta THEN SpDelta[a] ELSE 0

\* instructions with a memory operand, and the address it refers to when the
\* instruction is emulated
MemRefs == (5 :> 16) @@ (23 :> 77828)

(***************************************************************************)
(* The analysed image: functions and their flow charts.  A block is        *)
(* (start_ea, end_ea, type, succs); its id is its index in the chart.      *)
(***************************************************************************)
BB(s, e, t, su) == [start_ea |-> s, end_ea |-> e, type |-> t, succs |-> su]

Funcs ==
    << [start_ea |-> 0, end_ea |-> 7, blocks |->
          (0 :> BB(0, 2, "fcb_normal", <<2, 1>>)) @@ (1 :> BB(2, 4, "fcb_normal", <<3>>))
       @@ (2 :> BB(4, 5, "fcb_normal", <<3>>))    @@ (3 :> BB(5, 7, "fcb_ret", <<>>))],
       [start_ea |-> 10, end_ea |-> 17, blocks |->
          (0 :> BB(10, 11, "fcb_normal", <<1>>))  @@ (1 :> BB(11, 14, "fcb_normal", <<2, 3>>))
       @@ (2 :> BB(14, 16, "fcb_normal", <<1>>))  @@ (3 :> BB(16, 17, "fcb_ret", <<>>))],
       [start_ea |-> 20, end_ea |-> 26, blocks |->
          (0 :> BB(20, 21, "fcb_normal", <<1>>))  @@ (1 :> BB(21, 25, "fcb_normal", <<1, 2>>))
       @@ (2 :> BB(25, 26, "fcb_ret", <<>>))],
       [start_ea |-> 30, end_ea |-> 34, blocks |->
          (0 :> BB(30, 34, "fcb_ret", <<>>))],
       [start_ea |-> 35, end_ea |-> 38, blocks |->
          (0 :> BB(35, 38, "fcb_enoret", <<>>))],
       [start_ea |-> 40, end_ea |-> 51, blocks |->
          (0 :> BB(40, 42, "fcb_normal", <<1, 2>>)) @@ (1 :> BB(42, 46, "fcb_normal", <<2>>))
       @@ (2 :> BB(46, 47, "fcb_indjump", <<3>>))   @@ (3 :> BB(47, 49, "fcb_ret", <<>>))
       @@ (4 :> BB(49, 51, "fcb_ret", <<>>))],
       [start_ea |-> 52, end_ea |-> 58, blocks |->
          (0 :> BB(52, 58, "fcb_ret", <<>>))],
       [start_ea |-> 60, end_ea |-> 63, blocks |->
          (0 :> BB(60, 63, "fcb_ret", <<>>))],
       [start_ea |-> 70, end_ea |-> 80, blocks |->
          (0 :> BB(70, 80, "fcb_ret", <<>>))],
       [start_ea |-> 82, end_ea |-> 86, blocks |->
          (0 :> BB(82, 84, "fcb_normal", <<2, 1>>)) @@ (1 :> BB(84, 86, "fcb_ret", <<>>))
       @@ (2 :> BB(52, 52, "fcb_extern", <<>>))] >>

\* idaapi.get_func(ea): the function whose range holds ea
get_func(ea) == CHOOSE f \in 1..Len(Funcs) : Funcs[f].start_ea <= ea /\ ea < Funcs[f].end_ea

\* idaapi.FlowChart(function)
FlowChart(f) == Funcs[f].blocks

InImage(ea) == \E f \in 1..Len(Funcs) : Funcs[f].start_ea <= ea /\ ea < Funcs[f].end_ea

(***************************************************************************)
(* CFG path explorer.                                                      *)
(* The explorer's fields explorePaths / explorePathIdx are threaded        *)
(* through the recursion as a record ex:                                   *)
(*   ex.has   hasattr(self, 'explorePaths')                                *)
(*   ex.paths self.explorePaths (Python index i is paths[i + 1])           *)
(*   ex.idx   self.explorePathIdx                                          *)
(***************************************************************************)
SeqElems(s) == {s[i] : i \in 1..Len(s)}

\* list.pop(): the list without its last element
Pop(s) == SubSeq(s, 1, Len(s) - 1)

\* self.explorePaths[self.explorePathIdx]
CurPath(ex) == ex.paths[ex.idx + 1]

\* self.explorePaths[self.explorePathIdx].append(b)
AppendCur(ex, b) == [ex EXCEPT !.paths[ex.idx + 1] = Append(@, b)]

\* self.explorePaths[self.explorePathIdx].pop()
PopCur(ex) == [ex EXCEPT !.paths[ex.idx + 1] = Pop(@)]

\* "forging a new path": append a copy of the current path and move to it
ForgeNewPath(ex) == [ex EXCEPT !.paths = Append(@, CurPath(ex)), !.idx = @ + 1]

\* "handle loops by treating them like a terminating bb":
\* start_bb.id in self.explorePaths[self.explorePathIdx]
IsLoop(ex, b) == b \in SeqElems(CurPath(ex))

isTerminatingBB(f, b) ==
    LET bb == FlowChart(f)[b] IN
    \/ bb.type = "fcb_ret"
    \/ bb.type = "fcb_noret"
    \/ (bb.type = "fcb_indjump" /\ Len(bb.succs) = 0)
    \/ \E i \in 1..Len(bb.succs) : FlowChart(f)[bb.succs[i]].type = "fcb_extern"

\* _explore(start_bb, end_bb) on function f; the result is [ex, r] with r the
\* returned path index or None
RECURSIVE _explore(_, _, _, _)
RECURSIVE ExploreSuccs(_, _, _, _, _)
_explore(f, start_bb, end_bb, ex0) ==
    LET ex == IF ex0.has THEN ex0 ELSE [has |-> TRUE, paths |-> << <<>> >>, idx |-> 0] IN
    IF end_bb # None /\ end_bb = start_bb
    THEN [ex |-> AppendCur(ex, start_bb), r |-> ex.idx]
    ELSE IF IsLoop(ex, start_bb)
    THEN [ex |-> ForgeNewPath(ex), r |-> None]
    ELSE LET ex1 == AppendCur(ex, start_bb) IN
         IF isTerminatingBB(f, start_bb)
         THEN [ex |-> PopCur(ForgeNewPath(ex1)), r |-> None]
         ELSE LET v == ExploreSuccs(f, FlowChart(f)[start_bb].succs, 1, end_bb, ex1) IN
              IF v.r # None THEN v ELSE [ex |-> PopCur(v.ex), r |-> None]

\* (mutant) only the first successor is visited
ExploreSuccsFirstOnly(f, succs, i, end_bb, ex) ==
    IF i > Len(succs) \/ i > 1 THEN [ex |-> ex, r |-> None]
    ELSE _explore(f, succs[i], end_bb, ex)

\* for w in start_bb.succs(): r = self._explore(w, end_bb); if r is not None: return r
ExploreSuccs(f, succs, i, end_bb, ex) ==
    IF i > Len(succs) THEN [ex |-> ex, r |-> None]
    ELSE LET v == _explore(f, succs[i], end_bb, ex) IN
         IF v.r # None THEN v ELSE ExploreSuccs(f, succs, i + 1, end_bb, v.ex)

\* del(self.explorePaths): the attribute is gone, explorePathIdx stays
DelExplorePaths(ex) == [ex EXCEPT !.has = FALSE, !.paths = <<>>]

\* getBlockIdByVA / getBlockByVA: the first block of the chart holding targetVA
getBlockIdByVA(targetVA, f) ==
    LET hit == {b \in DOMAIN FlowChart(f) :
                   targetVA >= FlowChart(f)[b].start_ea /\ targetVA < FlowChart(f)[b].end_ea}
    IN CHOOSE b \in hit : \A c \in hit : b <= c

\* getStartBB: the block starting at the function's start address
getStartBB(f) == CHOOSE b \in DOMAIN FlowChart(f) : FlowChart(f)[b].start_ea = Funcs[f].start_ea

\* the picklable copy of the chart: id -> (start_ea, end_ea)
Flow(f) == [b \in DOMAIN FlowChart(f) |-> <<FlowChart(f)[b].start_ea, FlowChart(f)[b].end_ea>>]

\* (mutant) a failed exploration hands back the first explored path
getPathNeverNone(targetVA, ex) ==
    LET f == get_func(targetVA)
        v == _explore(f, getStartBB(f), getBlockIdByVA(targetVA, f), ex)
    IN IF v.r = None
       THEN [found |-> TRUE, paths |-> << v.ex.paths[1] >>, ex |-> v.ex]
       ELSE [found |-> TRUE, paths |-> << v.ex.paths[v.r + 1] >>, ex |-> DelExplorePaths(v.ex)]

\* getPath(targetVA): [found, path, ex]; found = FALSE is the result (None, None)
getPath(targetVA, ex) ==
    LET f == get_func(targetVA)
        v == _explore(f, getStartBB(f), getBlockIdByVA(targetVA, f), ex)
    IN IF v.r = None
       THEN [found |-> FALSE, paths |-> <<>>, ex |-> v.ex]
       ELSE [found |-> TRUE, paths |-> << v.ex.paths[v.r + 1] >>, ex |-> DelExplorePaths(v.ex)]

\* the paths of ps that hold block b, each cut after the first b
RECURSIVE TruncateTo(_, _)
TruncateTo(ps, b) ==
    IF ps = <<>> THEN <<>>
    ELSE LET p == Head(ps)
             cut == CHOOSE i \in 1..Len(p) : p[i] = b /\ \A j \in 1..(i - 1) : p[j] # b
         IN IF b \in SeqElems(p)
            THEN <<SubSeq(p, 1, cut)>> \o TruncateTo(Tail(ps), b)
            ELSE TruncateTo(Tail(ps), b)

\* (mutant) equal paths are kept
KeepDuplicates(ps, acc) == acc \o ps

\* "unique list of paths": first occurrences, in order
RECURSIVE Uniq(_, _)
Uniq(ps, acc) ==
    IF ps = <<>> THEN acc
    ELSE IF Head(ps) \in SeqElems(acc) THEN Uniq(Tail(ps), acc)
    ELSE Uniq(Tail(ps), Append(acc, Head(ps)))

\* (mutant) the list is not cut to n elements
TakeAll(s, n) == s

\* list[:n]
Take(s, n) == SubSeq(s, 1, IF n < Len(s) THEN n ELSE Len(s))

\* getPaths(targetVA, maxPaths) with the cache self.paths: [paths, ex, cache]
getPaths(targetVA, maxPaths, ex, cache) ==
    LET f == get_func(targetVA)
        target_bb == getBlockIdByVA(targetVA, f)
        key == Funcs[f].start_ea
        v == _explore(f, getStartBB(f), None, ex)
        explored == Pop(v.ex.paths)
        all == IF key \in DOMAIN cache THEN cache[key] ELSE explored
    IN [paths |-> Take(Uniq(TruncateTo(all, target_bb), <<>>), maxPaths),
        ex    |-> IF key \in DOMAIN cache THEN ex ELSE DelExplorePaths(v.ex),
        cache |-> IF key \in DOMAIN cache THEN cache ELSE (key :> explored) @@ cache]

(***************************************************************************)
(* Emulator memory.  uc.mem_regions() is a set of <<begin, end>> pairs     *)
(* with end the address of the region's last byte.  The contents of        *)
(* memory are kept as the set nz of intervals <<lo, hi>> of non-zero bytes *)
(* (lo inclusive, hi exclusive); every other mapped byte is zero.          *)
(***************************************************************************)
PAGESIZE == 4096
PAGEALIGNCHECK == 4095
MAX_ALLOC_SIZE == 10485760
\* "start at 0x10000 to avoid collision with null mem references"
HeapFloor == 65536
\* self.stackSize
StackSize == 8192

\* the database: INF_MIN_EA, INF_MAX_EA and the one segment between them
ImageBase == 69632
ImageEnd == 77824
SegmentEnds == {ImageEnd}
\* non-zero bytes of the image: a 5-byte string, and 16 bytes that run up to the
\* image's last byte
ImageBytes == {<<69648, 69653>>, <<77808, 77824>>}

Max(a, b) == IF a > b THEN a ELSE b
Min(a, b) == IF a < b THEN a ELSE b
SetMax(S) == CHOOSE x \in S : \A y \in S : y <= x

\* addr & 0xfffffffffffff000
pageAlign(addr) == addr - (addr % PAGESIZE)

pageAlignUp(v) == IF v % (PAGEALIGNCHECK + 1) # 0 THEN v + (PAGESIZE - (v % PAGESIZE)) ELSE v

\* some region of R holds address a
IsMapped(a, R) == \E r \in R : r[1] <= a /\ a <= r[2]

\* every byte of [lo, hi) is mapped, in one region or in regions that touch
RECURSIVE RangeMapped(_, _, _)
RangeMapped(lo, hi, R) ==
    IF lo >= hi THEN TRUE
    ELSE IF ~IsMapped(lo, R) THEN FALSE
    ELSE LET r == CHOOSE q \in R : q[1] <= lo /\ lo <= q[2] IN RangeMapped(r[2] + 1, hi, R)

\* uc.mem_map(base, size): UC_ERR_ARG for an empty range, UC_ERR_MAP for a range
\* that overlaps a mapped region
mem_map(base, size, R) ==
    IF size <= 0 \/ \E r \in R : base <= r[2] /\ base + size - 1 >= r[1]
    THEN [ok |-> FALSE, regions |-> R]
    ELSE [ok |-> TRUE, regions |-> R \cup {<<base, base + size - 1>>}]

\* (mutant) the search for unused memory stops at the highest region's last
\* byte without stepping a page further
findUnusedNoGap(R) == pageAlign(SetMax({HeapFloor} \cup {r[2] : r \in R} \cup SegmentEnds))

\* (mutant) the search steps two pages further
findUnusedTwoPages(R) ==
    pageAlignUp(SetMax({HeapFloor} \cup {r[2] : r \in R} \cup SegmentEnds) + 2 * PAGESIZE)

_findUnusedMemRegion(R) ==
    pageAlignUp(SetMax({HeapFloor} \cup {r[2] : r \in R} \cup SegmentEnds) + PAGESIZE)

\* (mutant) the end of the requested range is not compared with the regions
PreferredRangeValidStartOnly(baseAddr, allocSize, R) ==
    \A r \in R : ~(baseAddr >= r[1] /\ baseAddr < r[2])

\* allocEmuMem's isValid after its loop over the regions
PreferredRangeValid(baseAddr, allocSize, R) ==
    \A r \in R :
        /\ ~(\/ (baseAddr >= r[1] /\ baseAddr < r[2])
             \/ (baseAddr + allocSize >= r[1] /\ baseAddr + allocSize < r[2]))
        /\ ~(baseAddr < r[1] /\ baseAddr + allocSize > r[2])

\* self.uc.mem_map(baseAddr, allocSize) and allocEmuMem's return value: the
\* preferred address when it was valid, baseAddr + offs otherwise
mapEmuMem(baseAddr, allocSize, offs, isValid, R) ==
    LET m == mem_map(baseAddr, allocSize, R) IN
    [ok |-> m.ok, addr |-> baseAddr + offs, base |-> baseAddr, size |-> allocSize,
     honoured |-> isValid, regions |-> m.regions]

\* the end of allocEmuMem: the base is the preferred one when isValid and the
\* first unused address otherwise, allocSize bytes are mapped there
allocEmuMemAt(allocSize, addr, isValid, R) ==
    LET pref == addr # None
        baseP == IF pref THEN pageAlign(addr) ELSE 0
        offs == IF pref THEN addr - baseP ELSE 0
    IN mapEmuMem(IF isValid THEN baseP ELSE _findUnusedMemRegion(R), allocSize,
                 offs, isValid, R)

\* allocEmuMem(size, addr) on regions R; addr = None is the call without a
\* preferred address.  [ok, addr, base, size, regions]; ok = FALSE when mem_map
\* raised
allocEmuMem(size, addr, R) ==
    LET allocSize == pageAlignUp(size)
        pref == addr # None
        baseP == IF pref THEN pageAlign(addr) ELSE 0
    IN allocEmuMemAt(allocSize, addr, pref /\ PreferredRangeValid(baseP, allocSize, R), R)

\* getEmuMemRegion's None
NoRegion == <<>>

\* getEmuMemRegion(addr): <<begin, end + 1>> of the region holding addr, or None
getEmuMemRegion(addr, R) ==
    IF \E r \in R : addr >= r[1] /\ addr < r[2]
    THEN LET r == CHOOSE q \in R : addr >= q[1] /\ addr < q[2] IN <<r[1], r[2] + 1>>
    ELSE NoRegion

isValidEmuPtr(ptr, R) == \E r \in R : ptr >= r[1] /\ ptr < r[2]

\* the non-zero intervals of N with the bytes of [lo, hi) removed
Clear(N, lo, hi) ==
    {<<i[1], Min(i[2], lo)>> : i \in {j \in N : j[1] < lo}}
    \cup {<<Max(i[1], hi), i[2]>> : i \in {j \in N : j[2] > hi}}

\* the bytes of [lo, lo + n) as data: its length and its non-zero intervals,
\* relative to its first byte
Data(N, lo, n) ==
    [len |-> n,
     nz  |-> {<<Max(i[1], lo) - lo, Min(i[2], lo + n) - lo>> :
                 i \in {j \in N : j[1] < lo + n /\ j[2] > lo}}]

\* a string of n non-zero bytes followed by z zero bytes
StrData(n, z) == [len |-> n + z, nz |-> IF n > 0 THEN {<<0, n>>} ELSE {}]

\* d[:n]
Prefix(d, n) ==
    [len |-> Min(d.len, n),
     nz  |-> {<<i[1], Min(i[2], n)>> : i \in {j \in d.nz : j[1] < n}}]

\* uc.mem_write(addr, d) on contents N
Store(N, addr, d) ==
    Clear(N, addr, addr + d.len) \cup {<<i[1] + addr, i[2] + addr>> : i \in d.nz}

\* the address of the first zero or unmapped byte at or after a
RECURSIVE StrEnd(_, _, _)
StrEnd(a, N, R) ==
    IF ~IsMapped(a, R) THEN a
    ELSE IF \E i \in N : i[1] <= a /\ a < i[2]
    THEN LET i == CHOOSE j \in N : j[1] <= a /\ a < j[2] IN StrEnd(i[2], N, R)
    ELSE a

\* getEmuString(addr): [ok, len]; ok = FALSE when mem_read raised on an
\* unmapped byte before a zero byte was found
getEmuString(addr, N, R) ==
    LET e == StrEnd(addr, N, R) IN [ok |-> IsMapped(e, R), len |-> e - addr]

(***************************************************************************)
(* Call-target names.  A name is the sequence of its characters.           *)
(***************************************************************************)
Digits == {"0", "1", "2", "3", "4", "5", "6", "7", "8", "9"}

\* the number of digits a name ends with
RECURSIVE TrailingDigits(_)
TrailingDigits(n) ==
    IF n # <<>> /\ n[Len(n)] \in Digits THEN 1 + TrailingDigits(SubSeq(n, 1, Len(n) - 1)) ELSE 0

\* re.sub(r"_[\d]+$", "", funcName)
StripNumber(n) ==
    LET k == TrailingDigits(n) IN
    IF k > 0 /\ Len(n) > k /\ n[Len(n) - k] = "_" THEN SubSeq(n, 1, Len(n) - k - 1) ELSE n

\* re.sub(r"_l$", "", funcName)
StripLocale(n) ==
    IF Len(n) >= 2 /\ n[Len(n) - 1] = "_" /\ n[Len(n)] = "l" THEN SubSeq(n, 1, Len(n) - 2) ELSE n

\* if funcName[:2] == "j_": funcName = funcName[2:]
StripThunk(n) ==
    IF Len(n) >= 2 /\ n[1] = "j" /\ n[2] = "_" THEN SubSeq(n, 3, Len(n)) ELSE n

\* re.sub(r"^_+", "", funcName)
RECURSIVE StripUnderscores(_)
StripUnderscores(n) == IF n # <<>> /\ n[1] = "_" THEN StripUnderscores(Tail(n)) ELSE n

\* (mutant) the j_ prefix is left on the name
normalizeKeepThunk(n) == StripUnderscores(StripLocale(StripNumber(n)))

\* _handleApiHooks: "normalize funcName"
normalize(n) == StripUnderscores(StripThunk(StripLocale(StripNumber(n))))

malloc == <<"m", "a", "l", "l", "o", "c">>
strlen == <<"s", "t", "r", "l", "e", "n">>
strncpy_s == <<"s", "t", "r", "n", "c", "p", "y", "_", "s">>
umodsi3 == <<"u", "m", "o", "d", "s", "i", "3">>
printf == <<"p", "r", "i", "n", "t", "f">>

\* self.apiHooks, four of its entries: name -> shim
apiHooks ==
    (malloc :> "_allocMem1Hook") @@ (strlen :> "_strlenHook")
    @@ (strncpy_s :> "_strncpysHook") @@ (umodsi3 :> "_modHook")

\* the names IDA Pro and compilers give a routine called n: n, _n, j_n,
\* n_<digits>, n_l, _n_0
Decorated(n) ==
    {n, <<"_">> \o n, <<"j", "_">> \o n, n \o <<"_", "0">>, n \o <<"_", "1", "2">>,
     n \o <<"_", "l">>, <<"_">> \o n \o <<"_", "0">>}

\* names a call target can have
CallNames ==
    UNION {Decorated(n) \cup {<<"_", "j", "_">> \o n, n \o <<"_", "0", "_", "l">>,
                               <<"j", "_", "_">> \o n, n \o <<"0">>} : n \in DOMAIN apiHooks}
    \cup {printf}

(***************************************************************************)
(* Runtime shims: the routines of self.apiHooks, as functions of the       *)
(* regions R, the memory contents N and the allocation map A.              *)
(***************************************************************************)
\* 0xffffffff / 0xffffffffffffffff, the failure value of the string shims
AllOnes == -2

_checkMemSize(size) == IF size > MAX_ALLOC_SIZE THEN MAX_ALLOC_SIZE ELSE size

\* what a shim that did nothing leaves behind; raised = an exception left the
\* shim, ret = the value written to the return register (None = not written),
\* map = <<base, size>> of the region it mapped, wr = the byte range [lo, hi) it
\* wrote, rd = the byte ranges it read
ShimNone(R, N, A) ==
    [raised |-> FALSE, ret |-> None, regions |-> R, nz |-> N, am |-> A,
     map |-> <<>>, wr |-> <<>>, rd |-> {}]

\* self.uc.reg_write(self.regs["ret"], self.allocEmuMem(allocSize, addr))
AllocRet(allocSize, addr, R, N, A) ==
    LET v == allocEmuMem(allocSize, addr, R) IN
    IF v.ok
    THEN [ShimNone(R, N, A) EXCEPT !.ret = v.addr, !.regions = v.regions,
                                   !.map = <<v.base, v.size>>]
    ELSE [ShimNone(R, N, A) EXCEPT !.raised = TRUE]

_allocMem1Hook(argv, R, N, A) == AllocRet(_checkMemSize(argv[1]), None, R, N, A)
_allocMem2Hook(argv, R, N, A) == AllocRet(_checkMemSize(argv[2]), None, R, N, A)
_allocMem3Hook(argv, R, N, A) == AllocRet(_checkMemSize(argv[3]), None, R, N, A)
_callocHook(argv, R, N, A) == AllocRet(_checkMemSize(argv[1] * argv[2]), None, R, N, A)

\* copyEmuMem(dstAddr, srcAddr, size) on a shim result v
copyEmuMem(v, dstAddr, srcAddr, size) ==
    LET n == _checkMemSize(size) IN
    IF RangeMapped(srcAddr, srcAddr + n, v.regions) /\ RangeMapped(dstAddr, dstAddr + n, v.regions)
    THEN [v EXCEPT !.nz = Store(v.nz, dstAddr, Data(v.nz, srcAddr, n)),
                   !.wr = <<dstAddr, dstAddr + n>>,
                   !.rd = v.rd \cup {<<srcAddr, srcAddr + n>>}]
    ELSE [v EXCEPT !.raised = TRUE]

\* (mutant) the new region has the requested size and min(existing size,
\* requested size) bytes are copied
reallocRequestedSize(ptr, size, R, N, A) ==
    LET allocSize == _checkMemSize(size)
        region == getEmuMemRegion(ptr, R)
        v == AllocRet(allocSize, None, R, N, A)
    IN IF region = NoRegion \/ v.raised THEN v
       ELSE copyEmuMem(v, v.ret, region[1], Min(region[2] - region[1], allocSize))

\* the body shared by _reallocHook and _heapReAllocHook's else branch
ReallocBody(ptr, size, R, N, A) ==
    LET allocSize == _checkMemSize(size)
        region == getEmuMemRegion(ptr, R)
    IN IF region # NoRegion
       THEN LET v == AllocRet(Max(region[2] - region[1], allocSize), None, R, N, A) IN
            IF v.raised THEN v
            ELSE LET c == copyEmuMem([v EXCEPT !.ret = None], v.ret, region[1], region[2] - region[1])
                 IN IF c.raised THEN c ELSE [c EXCEPT !.ret = v.ret]
       ELSE AllocRet(allocSize, None, R, N, A)

_reallocHook(argv, R, N, A) == ReallocBody(argv[1], argv[2], R, N, A)

HEAP_REALLOC_IN_PLACE_ONLY == 16

_heapReAllocHook(argv, R, N, A) ==
    IF (argv[2] \div HEAP_REALLOC_IN_PLACE_ONLY) % 2 = 1
    THEN [ShimNone(R, N, A) EXCEPT !.ret = 0]
    ELSE ReallocBody(argv[3], argv[4], R, N, A)

_virtualAllocHook(argv, R, N, A) ==
    IF argv[1] \in DOMAIN A
    THEN [ShimNone(R, N, A) EXCEPT !.ret = A[argv[1]][1]]
    ELSE LET allocSize == _checkMemSize(argv[2])
             v == AllocRet(allocSize, argv[1], R, N, A)
         IN IF v.raised THEN v
            ELSE [v EXCEPT !.am = (argv[1] :> <<v.ret, allocSize>>) @@ A]

\* self.uc.mem_write(addr, d) on a shim result v: UC_ERR_WRITE_UNMAPPED unless
\* every byte of the range is mapped
MemWrite(v, addr, d) ==
    IF RangeMapped(addr, addr + d.len, v.regions)
    THEN [v EXCEPT !.nz = Store(v.nz, addr, d), !.wr = <<addr, addr + d.len>>]
    ELSE [v EXCEPT !.raised = TRUE]

\* dstRegion and argv[0] of the copy shims: the region of dst, or a region
\* allocated for n bytes when dst is in none.  [v, dst, region]
DstRegion(dst, n, R, N, A) ==
    LET region == getEmuMemRegion(dst, R) IN
    IF region # NoRegion THEN [v |-> ShimNone(R, N, A), dst |-> dst, region |-> region]
    ELSE LET a == AllocRet(n, None, R, N, A) IN
         IF a.raised THEN [v |-> a, dst |-> dst, region |-> NoRegion]
         ELSE LET g == getEmuMemRegion(a.ret, a.regions) IN
              [v |-> [a EXCEPT !.ret = None], dst |-> g[1], region |-> g]

\* the bytes getEmuString touches: up to and including the byte that ends it
StrRead(addr, s) == <<addr, addr + s.len + (IF s.ok THEN 1 ELSE 0)>>

_memcpyHook(argv, R, N, A) ==
    LET copySize == _checkMemSize(argv[3])
        srcRegion == getEmuMemRegion(argv[2], R)
        d == DstRegion(argv[1], copySize, R, N, A)
    IN IF d.v.raised THEN d.v
       ELSE IF srcRegion # NoRegion /\ copySize <= srcRegion[2] - argv[2]
                                /\ copySize <= d.region[2] - d.dst
            THEN LET c == copyEmuMem(d.v, d.dst, argv[2], copySize) IN
                 IF c.raised THEN c ELSE [c EXCEPT !.ret = d.dst]
            ELSE [d.v EXCEPT !.ret = d.dst]

_strlenHook(argv, R, N, A) ==
    IF isValidEmuPtr(argv[1], R)
    THEN LET s == getEmuString(argv[1], N, R) IN
         IF s.ok THEN [ShimNone(R, N, A) EXCEPT !.ret = s.len, !.rd = {StrRead(argv[1], s)}]
         ELSE [ShimNone(R, N, A) EXCEPT !.raised = TRUE, !.rd = {StrRead(argv[1], s)}]
    ELSE [ShimNone(R, N, A) EXCEPT !.ret = 0]

\* the end of the string-copy shims: data is written at the destination
\* when it fits (ret = good, or the destination when good = None), AllOnes is
\* returned when it does not
WriteIfFits(d, rd, fits, data, good) ==
    IF fits
    THEN LET w == MemWrite([d.v EXCEPT !.rd = rd], d.dst, data) IN
         IF w.raised THEN w ELSE [w EXCEPT !.ret = IF good = None THEN d.dst ELSE good]
    ELSE [d.v EXCEPT !.rd = rd, !.ret = AllOnes]

_strcpyHook(argv, R, N, A) ==
    IF ~isValidEmuPtr(argv[2], R) THEN [ShimNone(R, N, A) EXCEPT !.ret = AllOnes]
    ELSE LET s == getEmuString(argv[2], N, R)
             rd == {StrRead(argv[2], s)} IN
         IF ~s.ok THEN [ShimNone(R, N, A) EXCEPT !.raised = TRUE, !.rd = rd]
         ELSE LET d == DstRegion(argv[1], s.len + 1, R, N, A) IN
              IF d.v.raised THEN [d.v EXCEPT !.rd = rd]
              ELSE WriteIfFits(d, rd, s.len + 1 <= d.region[2] - d.dst, StrData(s.len, 1), None)

_strncpyHook(argv, R, N, A) ==
    IF ~isValidEmuPtr(argv[2], R) THEN [ShimNone(R, N, A) EXCEPT !.ret = AllOnes]
    ELSE LET strnlen == _checkMemSize(argv[3])
             s == getEmuString(argv[2], N, R)
             rd == {StrRead(argv[2], s)} IN
         IF ~s.ok THEN [ShimNone(R, N, A) EXCEPT !.raised = TRUE, !.rd = rd]
         ELSE LET d == DstRegion(argv[1], strnlen, R, N, A) IN
              IF d.v.raised THEN [d.v EXCEPT !.rd = rd]
              ELSE WriteIfFits(d, rd, strnlen <= d.region[2] - d.dst,
                               IF strnlen > s.len THEN StrData(s.len, strnlen - s.len)
                               ELSE StrData(s.len, 0),
                               None)

_strncpysHook(argv, R, N, A) ==
    IF ~isValidEmuPtr(argv[3], R) THEN [ShimNone(R, N, A) EXCEPT !.ret = AllOnes]
    ELSE LET strnlen == _checkMemSize(argv[4])
             s == getEmuString(argv[3], N, R)
             rd == {StrRead(argv[3], s)} IN
         IF ~s.ok THEN [ShimNone(R, N, A) EXCEPT !.raised = TRUE, !.rd = rd]
         ELSE LET d == DstRegion(argv[1], strnlen, R, N, A) IN
              IF d.v.raised THEN [d.v EXCEPT !.rd = rd]
              ELSE WriteIfFits(d, rd, Min(strnlen, s.len) + 1 <= d.region[2] - d.dst,
                               StrData(s.len, 1), 0)

_modHook(argv, R, N, A) ==
    IF argv[2] = 0 THEN [ShimNone(R, N, A) EXCEPT !.raised = TRUE]
    ELSE [ShimNone(R, N, A) EXCEPT !.ret = argv[1] % argv[2]]

\* the registered routine the image's calls of registered routines name: malloc
ImageShim == "_allocMem1Hook"

\* the arguments of the calls made by name
ArgvOf(shim) ==
    CASE shim = "_allocMem1Hook" -> <<PAGESIZE + 1>>
      [] shim = "_strlenHook" -> <<69648>>
      [] shim = "_strncpysHook" -> <<77820, 64, 69648, 2>>
      [] shim = "_modHook" -> <<7, 3>>

\* self.apiHooks[funcName](address, argv, funcName, userData)
RunShim(shim, argv, R, N, A) ==
    CASE shim = "_allocMem1Hook" -> _allocMem1Hook(argv, R, N, A)
      [] shim = "_strlenHook" -> _strlenHook(argv, R, N, A)
      [] shim = "_strncpysHook" -> _strncpysHook(argv, R, N, A)
      [] shim = "_modHook" -> _modHook(argv, R, N, A)

(***************************************************************************)
(* State.                                                                  *)
(***************************************************************************)
VARIABLES
    explorer,        \* [has, paths, idx]: self.explorePaths, self.explorePathIdx
    selfPaths,       \* self.paths: function start -> explored paths (getPaths' cache)
    nq,              \* queries made so far (explorer specification)
    res,             \* the last query and its result (explorer specification)
    phase,           \* where iterate and the emulator are
    callHook,        \* userData["callHook"] is set
    hookApis,        \* userData["hookApis"]
    given,           \* number of elements of the target list consumed so far
    targetInfo,      \* userData["targetInfo"]: target -> paths (flow is Flow(get_func))
    targetVA,        \* userData["targetVA"]
    iterPaths,       \* iterate's local `paths`, the list its for loop walks
    pathIdx,         \* self.pathIdx
    blockIdx,        \* self.blockIdx
    enteredBlock,    \* self.enteredBlock
    visitedTargets,  \* userData["visitedTargets"]
    pc,              \* the emulator's program counter
    trace,           \* addresses of the instructions the emulator executed this run
    cbLog,           \* callback invocations of this run: <<address, trace>> (targetCallback
                     \* in a guided run, callHook in a range run)
    called,          \* targets whose callback has been invoked since iterate began
    lastHook,        \* the rule the hook applied last in this run, and where
    steered,         \* addresses the hook forced PC away from in this run
    regions,         \* uc.mem_regions()
    nz,              \* the non-zero bytes of emulator memory
    allocMap,        \* self.allocMap: requested address -> <<address, size>>
    last,            \* the last memory operation or shim call and its effect
    nops,            \* memory operations made so far (memory specification)
    sp,              \* the emulator's stack pointer
    resetEmuMem,     \* iterate's resetEmuMem argument
    rangeData,       \* emulateRange's userData: funcStart, funcEnd, skipCalls, endAddr; and
                     \* ret, the return addresses the calls executed in the run pushed
    hooks            \* the five hook handles of the EmuHelper, the hooks registered on the
                     \* emulator, and the emulation calls made

explorerVars == <<explorer, selfPaths, nq, res>>
memVars == <<regions, nz, allocMap, last, nops>>
iterVars == <<phase, callHook, hookApis, given, targetInfo, targetVA, iterPaths, pathIdx, blockIdx,
              enteredBlock, visitedTargets, pc, trace, cbLog, called, lastHook, steered,
              regions, nz, allocMap, last, nops, sp, resetEmuMem, rangeData, hooks>>
vars == <<explorer, selfPaths, nq, res, phase, callHook, hookApis, given, targetInfo,
          targetVA, iterPaths, pathIdx, blockIdx, enteredBlock, visitedTargets, pc, trace, cbLog, called,
          lastHook, steered, regions, nz, allocMap, last, nops, sp, resetEmuMem, rangeData, hooks>>

\* a new EmuHelper: no explorePaths attribute, self.paths = {}
FreshExplorer == [has |-> FALSE, paths |-> <<>>, idx |-> 0]
EmptyDict == <<>>
NoHook == [rule |-> "none", addr |-> None]
NoResult == [op |-> "none", target |-> None, maxPaths |-> 0, found |-> FALSE, paths |-> <<>>]

\* addresses an analyst asks about: instruction heads with a mnemonic
QueryTargets == Heads

\* reloadBinary: the image mapped as one region and its bytes written, then
\* _buildStack
MemNone ==
    [op |-> "none", args |-> <<>>, ok |-> TRUE, ret |-> None, map |-> <<>>, honoured |-> FALSE,
     wr |-> <<>>, rd |-> {}, name |-> <<>>, shim |-> "", before |-> {}]
InitRegions ==
    LET image == mem_map(pageAlign(ImageBase), pageAlignUp(ImageEnd - ImageBase), {}).regions
    IN allocEmuMem(StackSize, None, image).regions
\* self.stack after _buildStack: "stack pointer will begin in the middle of
\* allocated stack size"
InitStack ==
    LET image == mem_map(pageAlign(ImageBase), pageAlignUp(ImageEnd - ImageBase), {}).regions
    IN allocEmuMem(StackSize, None, image).addr + StackSize \div 2
\* the end of reloadBinary: the image's bytes and _buildStack
reloadStack(image) ==
    LET stk == allocEmuMem(StackSize, None, image.regions) IN
    [ok |-> image.ok /\ stk.ok, regions |-> IF image.ok THEN stk.regions ELSE image.regions,
     nz |-> ImageBytes]

\* (mutant) the regions stay mapped
resetEmulatorMemoryKeepsAll(R) == R

\* resetEmulatorMemory: every region is unmapped
resetEmulatorMemory(R) == {}

\* reloadBinary on regions R: unmap everything, map the image as one region and
\* write its bytes, build a new stack.  [ok, regions, nz]; ok = FALSE when
\* mem_map raised
reloadBinary(R) ==
    LET image == mem_map(pageAlign(ImageBase), pageAlignUp(ImageEnd - ImageBase),
                         resetEmulatorMemory(R))
    IN reloadStack(image)

(***************************************************************************)
(* Hook registration.                                                      *)
(***************************************************************************)
\* __init__ 57-61: the five handles are None; nothing is registered on the new
\* emulator.  calls counts the emulation calls made, lastCall is the most
\* recent one, inst the most recent one that reached its hook_add calls
NoCall == [call |-> 0, op |-> "none", instructionHook |-> FALSE, memAccessHook |-> FALSE]
NoHooks ==
    [h_userhook |-> None, h_memaccesshook |-> None, h_codehook |-> None, h_memhook |-> None,
     h_inthook |-> None, registered |-> {}, handles |-> 0, calls |-> 0, lastCall |-> NoCall,
     inst |-> NoCall]

\* self.<field> = uc.hook_add(type, cb, userData): a new handle, never 0
hook_add(H, field, type, cb) ==
    [H EXCEPT !.handles = @ + 1,
              !.registered = @ \cup {[h |-> H.handles + 1, type |-> type, cb |-> cb,
                                      call |-> H.calls]},
              ![field] = H.handles + 1]

\* if self.<field>: self.uc.hook_del(self.<field>); self.<field> = None
DelHook(H, field) ==
    IF H[field] # None
    THEN [H EXCEPT !.registered = {r \in @ : r.h # H[field]}, ![field] = None]
    ELSE H

\* (mutant) the user's instruction hook is not deleted
resetEmuHooksKeepsUser(H) ==
    DelHook(DelHook(DelHook(DelHook(H, "h_memaccesshook"), "h_codehook"), "h_memhook"),
            "h_inthook")

\* resetEmuHooks (self.uc is set by the constructor)
resetEmuHooks(H) ==
    DelHook(DelHook(DelHook(DelHook(DelHook(H, "h_userhook"), "h_memaccesshook"), "h_codehook"),
                    "h_memhook"), "h_inthook")

\* entry of emulateRange, emulateBytes or iterate
BeginCall(H, op, instructionHook, memAccessHook) ==
    [H EXCEPT !.calls = @ + 1,
              !.lastCall = [call |-> H.calls + 1, op |-> op, instructionHook |-> instructionHook,
                            memAccessHook |-> memAccessHook]]

AddUserHook(H, instructionHook) ==
    IF instructionHook THEN hook_add(H, "h_userhook", "code", "instructionHook") ELSE H
AddMemAccessHook(H, memAccessHook) ==
    IF memAccessHook THEN hook_add(H, "h_memaccesshook", "mem_access", "memAccessHook") ELSE H

\* self.resetEmuHooks() and the hook_add calls that follow it in emulateRange,
\* iterate and emulateBytes; codeHook is the engine's instruction hook of the call
RegisterHooks(H, codeHook, instructionHook, memAccessHook) ==
    [hook_add(hook_add(AddMemAccessHook(AddUserHook(hook_add(resetEmuHooks(H),
                                                             "h_codehook", "code", codeHook),
                                                    instructionHook),
                                        memAccessHook),
                       "h_memhook", "mem_unmapped", "_hookMemInvalid"),
              "h_inthook", "intr", "_hookInterrupt")
        EXCEPT !.inst = H.lastCall]

\* userData of a helper that is not inside emulateRange
NoRange == [funcStart |-> None, funcEnd |-> None, skipCalls |-> TRUE, endAddr |-> None,
            ret |-> <<>>]
InitMemory ==
    /\ regions = InitRegions
    /\ nz = ImageBytes
    /\ allocMap = EmptyDict
    /\ last = MemNone
    /\ nops = 0
    /\ sp = InitStack
    /\ rangeData = NoRange
    /\ hooks = NoHooks

(***************************************************************************)
(* Explorer specification: getPath / getPaths queries on one EmuHelper.    *)
(***************************************************************************)
InitPaths ==
    /\ explorer = FreshExplorer
    /\ selfPaths = EmptyDict
    /\ nq = 0
    /\ res = NoResult
    /\ phase = "idle"
    /\ callHook = FALSE
    /\ hookApis = TRUE
    /\ given = 0
    /\ targetInfo = EmptyDict
    /\ targetVA = None
    /\ iterPaths = <<>>
    /\ pathIdx = 0
    /\ blockIdx = 0
    /\ enteredBlock = FALSE
    /\ visitedTargets = <<>>
    /\ pc = 0
    /\ trace = {}
    /\ cbLog = <<>>
    /\ called = {}
    /\ lastHook = NoHook
    /\ steered = {}
    /\ resetEmuMem = FALSE
    /\ InitMemory

\* flow, paths = self.getPath(t)
DoGetPath(t) ==
    LET v == getPath(t, explorer) IN
    /\ nq < MaxQueries
    /\ explorer' = v.ex
    /\ res' = [op |-> "getPath", target |-> t, maxPaths |-> 0, found |-> v.found, paths |-> v.paths]
    /\ nq' = nq + 1
    /\ UNCHANGED selfPaths
    /\ UNCHANGED iterVars

\* flow, paths = self.getPaths(t, m)
DoGetPaths(t, m) ==
    LET v == getPaths(t, m, explorer, selfPaths) IN
    /\ nq < MaxQueries
    /\ explorer' = v.ex
    /\ selfPaths' = v.cache
    /\ res' = [op |-> "getPaths", target |-> t, maxPaths |-> m, found |-> TRUE, paths |-> v.paths]
    /\ nq' = nq + 1
    /\ UNCHANGED iterVars

NextPaths ==
    \/ \E t \in QueryTargets : DoGetPath(t)
    \/ \E t \in QueryTargets : \E m \in 0..MaxMaxPaths : DoGetPaths(t, m)

SpecPaths == InitPaths /\ [][NextPaths]_vars

(***************************************************************************)
(* Forced-execution controller: helpers.                                   *)
(***************************************************************************)
\* the function a run of the active target emulates: flow[0][0] is its start
ActiveFunc == get_func(targetVA)
funcStart == Flow(ActiveFunc)[0][1]
\* idc.get_func_attr(funcStart, idc.FUNCATTR_END), the `until` of emu_start
funcEnd == Funcs[get_func(funcStart)].end_ea

\* paths[self.pathIdx], the path being pursued
CurrentPath == targetInfo[targetVA][pathIdx + 1]
\* flow[paths[self.pathIdx][self.blockIdx]][0]
bbStart == Flow(ActiveFunc)[CurrentPath[blockIdx + 1]][1]
\* idc.prev_head(flow[paths[self.pathIdx][self.blockIdx]][1], ...)
bbEnd == prev_head(Flow(ActiveFunc)[CurrentPath[blockIdx + 1]][2])
\* flow[paths[self.pathIdx][self.blockIdx + 1]][0]
NextBlockStart == Flow(ActiveFunc)[CurrentPath[blockIdx + 2]][1]
HasNextBlock == blockIdx < Len(CurrentPath) - 1

\* (mutant) only an address below the block counts as outside it
OutOfBlockBelowOnly(a) == a < bbStart

OutOfBlock(a) == a > bbEnd \/ a < bbStart
LoopReentry(a) == a = bbStart /\ enteredBlock

\* (mutant) the lowest address is pursued first
LowestTarget(ti) == CHOOSE t \in DOMAIN ti : \A u \in DOMAIN ti : t <= u

\* sorted(userData["targetInfo"].keys(), reverse=True)[0]
HighestTarget(ti) == CHOOSE t \in DOMAIN ti : \A u \in DOMAIN ti : u <= t

\* stopEmulation's bookkeeping: the active target joins visitedTargets unless in it
StopVisited(vs) == IF targetVA \in SeqElems(vs) THEN vs ELSE Append(vs, targetVA)

\* what the emulator does when the hook returns (Unicorn 1.x): a write of PC inside
\* the hook restarts translation at the new PC and cancels a stop requested in the
\* same hook call ("if you change the program counter, it undoes your call to
\* emu_stop()"); otherwise a stop request ends emu_start; otherwise the
\* instruction at PC is executed
AfterHook(stopReq, pcWritten, newPC) ==
    IF pcWritten THEN [phase |-> "hook", pc |-> newPC]
    ELSE IF stopReq THEN [phase |-> "ended", pc |-> pc]
    ELSE [phase |-> "exec", pc |-> pc]

\* (mutant) every target hit stops the run, not only the active target's
TargetCheckStopsAlways(a) ==
    IF a = targetVA \/ a \in DOMAIN targetInfo
    THEN [hit |-> TRUE, stop |-> TRUE, entered |-> FALSE,
          visited |-> StopVisited(Append(visitedTargets, a)),
          log |-> Append(cbLog, <<a, trace>>)]
    ELSE [hit |-> FALSE, stop |-> FALSE, entered |-> (enteredBlock \/ a = bbStart),
          visited |-> visitedTargets, log |-> cbLog]

\* lines 2179-2189 of the hook at address a: the hit of the active target or of
\* another pending target.  [hit, stop, visited, log]
TargetCheck(a) ==
    IF a = targetVA
    THEN [hit |-> TRUE, stop |-> TRUE, entered |-> FALSE,
          visited |-> StopVisited(Append(visitedTargets, a)),
          log |-> Append(cbLog, <<a, trace>>)]
    ELSE IF a \in DOMAIN targetInfo
    THEN [hit |-> TRUE, stop |-> FALSE, entered |-> (enteredBlock \/ a = bbStart),
          visited |-> Append(visitedTargets, a),
          log |-> Append(cbLog, <<a, trace>>)]
    ELSE [hit |-> FALSE, stop |-> FALSE, entered |-> (enteredBlock \/ a = bbStart),
          visited |-> visitedTargets, log |-> cbLog]

\* the hook reaches its target check at a: a is inside the current block, not a
\* loop re-entry, decodable and not in zero-filled memory
ReachesTargetCheck(a) ==
    /\ ~LoopReentry(a)
    /\ ~OutOfBlock(a)
    /\ print_insn_mnem(a) # ""
    /\ ~IsNullMem(a)

isRetInstruction(a) == print_insn_mnem(a) \in {"ret", "retn", "retf"}
IsCall(a) == print_insn_mnem(a) = "call"

\* where the user's call callback may move PC to: a later instruction of the
\* function
RedirectDests(a) ==
    {d \in Heads : d > a /\ get_func(a) = get_func(d)}

\* the successors the emulator can reach by executing the instruction at a
NextPCs(a) ==
    IF a \notin Heads THEN {a + 1}
    ELSE IF Insn[a].mnem = "jz" THEN {a + EmuSize(a)} \cup Insn[a].dests
    ELSE IF Insn[a].mnem = "jmp" THEN Insn[a].dests
    ELSE IF Insn[a].mnem \in {"mov", "add"} THEN {a + EmuSize(a)}
    ELSE {}

\* (mutant) the run set is emptied after a run
DelVisitedAll(ti, vs) == [ti |-> EmptyDict, ok |-> TRUE]

\* for addr in userData["visitedTargets"]: del(userData["targetInfo"][addr])
\* [ti, ok]; ok = FALSE when a del raised KeyError
RECURSIVE DelVisited(_, _)
DelVisited(ti, vs) ==
    IF vs = <<>> THEN [ti |-> ti, ok |-> TRUE]
    ELSE IF Head(vs) \notin DOMAIN ti THEN [ti |-> ti, ok |-> FALSE]
    ELSE DelVisited([t \in DOMAIN ti \ {Head(vs)} |-> ti[t]], Tail(vs))

(***************************************************************************)
(* iterate(target=[...], targetCallback, callHook=..., hookApis=...).      *)
(***************************************************************************)
\* the addresses an analyst names as targets: instructions of every kind (plain,
\* call with and without a shim, return) in blocks of every kind of the image
TargetCandidates == {5, 6, 11, 14, 21, 25, 30, 32, 48, 49, 57, 62}

Init ==
    /\ explorer = FreshExplorer
    /\ selfPaths = EmptyDict
    /\ nq = 0
    /\ res = NoResult
    /\ phase = "setup"
    /\ callHook \in BOOLEAN
    /\ hookApis \in BOOLEAN
    /\ given = 0
    /\ targetInfo = EmptyDict
    /\ targetVA = None
    /\ iterPaths = <<>>
    /\ pathIdx = 0
    /\ blockIdx = 0
    /\ enteredBlock = FALSE
    /\ visitedTargets = <<>>
    /\ pc = 0
    /\ trace = {}
    /\ cbLog = <<>>
    /\ called = {}
    /\ lastHook = NoHook
    /\ steered = {}
    /\ resetEmuMem \in BOOLEAN
    /\ InitMemory

\* for i, t in enumerate(target): flow, paths = self.getPath(t); if flow is not
\* None: targetInfo[t] = (flow, paths)
IterGetPath(t) ==
    LET v == getPath(t, explorer) IN
    /\ phase = "setup"
    /\ given < MaxTargets
    /\ explorer' = v.ex
    /\ targetInfo' = IF v.found
                     THEN [u \in DOMAIN targetInfo \cup {t} |-> IF u = t THEN v.paths ELSE targetInfo[u]]
                     ELSE targetInfo
    /\ given' = given + 1
    /\ UNCHANGED <<selfPaths, nq, res, phase, callHook, hookApis, targetVA, iterPaths, pathIdx,
                   blockIdx, enteredBlock, visitedTargets, pc, trace, cbLog, called, lastHook, steered>>
    /\ UNCHANGED <<memVars, sp, resetEmuMem, rangeData, hooks>>

\* the target list is exhausted: return if no target has a path, else install
\* the hooks and enter the while loop
IterBegin ==
    /\ phase = "setup"
    /\ phase' = IF DOMAIN targetInfo = {} THEN "done" ELSE "while"
    /\ blockIdx' = 0
    /\ hooks' = IF DOMAIN targetInfo = {}
                THEN BeginCall(hooks, "iterate", FALSE, FALSE)
                ELSE RegisterHooks(BeginCall(hooks, "iterate", FALSE, FALSE), "_guidedHook",
                                   FALSE, FALSE)
    /\ UNCHANGED <<explorer, selfPaths, nq, res, callHook, hookApis, given, targetInfo, targetVA,
                   iterPaths, pathIdx, enteredBlock, visitedTargets, pc, trace, cbLog, called, lastHook, steered>>
    /\ UNCHANGED <<memVars, sp, resetEmuMem, rangeData>>

\* while len(userData["targetInfo"]) > 0: pick the target, self.pathIdx = 0
IterWhile ==
    /\ phase = "while"
    /\ IF DOMAIN targetInfo = {}
       THEN /\ phase' = "done"
            /\ UNCHANGED <<targetVA, iterPaths, pathIdx>>
       ELSE /\ phase' = "for"
            /\ targetVA' = HighestTarget(targetInfo)
            /\ iterPaths' = targetInfo[HighestTarget(targetInfo)]
            /\ pathIdx' = 0
    /\ UNCHANGED <<explorer, selfPaths, nq, res, callHook, hookApis, given, targetInfo,
                   blockIdx, enteredBlock, visitedTargets, pc, trace, cbLog, called, lastHook, steered>>
    /\ UNCHANGED <<memVars, sp, resetEmuMem, rangeData, hooks>>

\* for path in paths: zero the registers, reloadBinary if resetEmuMem, SP :=
\* self.stack (which every _buildStack sets to the same address), clear the run
\* state, emu_start
IterStartRun ==
    /\ phase = "for"
    /\ pathIdx < Len(iterPaths)
    /\ enteredBlock' = FALSE
    /\ visitedTargets' = <<>>
    /\ trace' = {}
    /\ cbLog' = <<>>
    /\ pc' = funcStart
    /\ phase' = "hook"
    /\ lastHook' = NoHook
    /\ steered' = {}
    /\ UNCHANGED <<explorer, selfPaths, nq, res, callHook, hookApis, given, targetInfo, targetVA,
                   iterPaths, pathIdx, blockIdx, called>>
    /\ \E m \in {IF resetEmuMem THEN reloadBinary(regions)
                 ELSE [ok |-> TRUE, regions |-> regions, nz |-> nz]} :
           /\ regions' = m.regions
           /\ nz' = m.nz
    /\ sp' = InitStack
    /\ UNCHANGED <<allocMap, last, nops, resetEmuMem, rangeData, hooks>>

\* the for loop has walked all of paths: cnt += 1 and back to the while test
IterForDone ==
    /\ phase = "for"
    /\ pathIdx >= Len(iterPaths)
    /\ phase' = "while"
    /\ UNCHANGED <<explorer, selfPaths, nq, res, callHook, hookApis, given, targetInfo, targetVA,
                   iterPaths, pathIdx, blockIdx, enteredBlock, visitedTargets, pc, trace, cbLog,
                   called, lastHook, steered>>
    /\ UNCHANGED <<memVars, sp, resetEmuMem, rangeData, hooks>>

\* (mutant) the block index is left where the run ended
IterEndRunKeepsBlockIdx ==
    LET d == DelVisited(targetInfo, visitedTargets) IN
    /\ phase = "ended"
    /\ pathIdx' = pathIdx + 1
    /\ targetInfo' = d.ti
    /\ phase' = IF d.ok THEN "for" ELSE "raised"
    /\ UNCHANGED <<explorer, selfPaths, nq, res, callHook, hookApis, given, targetVA, iterPaths,
                   blockIdx, enteredBlock, visitedTargets, pc, trace, cbLog, called, lastHook,
                   steered>>
    /\ UNCHANGED <<memVars, sp, resetEmuMem, rangeData, hooks>>

\* emu_start returned: self.pathIdx += 1, self.blockIdx = 0, and the targets
\* visited during the run are deleted from targetInfo; a del of a key that is
\* not there raises KeyError out of iterate
IterEndRun ==
    LET d == DelVisited(targetInfo, visitedTargets) IN
    /\ phase = "ended"
    /\ pathIdx' = pathIdx + 1
    /\ blockIdx' = 0
    /\ targetInfo' = d.ti
    /\ phase' = IF d.ok THEN "for" ELSE "raised"
    /\ UNCHANGED <<explorer, selfPaths, nq, res, callHook, hookApis, given, targetVA, iterPaths,
                   enteredBlock, visitedTargets, pc, trace, cbLog, called, lastHook, steered>>
    /\ UNCHANGED <<memVars, sp, resetEmuMem, rangeData, hooks>>

(***************************************************************************)
(* _guidedHook, one action per way through it.  The emulator calls the     *)
(* hook before every instruction it is about to execute, except at the     *)
(* `until` address of emu_start, where it returns instead.                 *)
(***************************************************************************)
InHook == phase = "hook" /\ pc # funcEnd

\* explorer state and iterate's configuration, which no hook touches
hookConfig == <<explorer, selfPaths, nq, res, callHook, hookApis, given, targetInfo, targetVA,
                iterPaths, pathIdx, resetEmuMem, rangeData, hooks>>
\* what a hook that runs no shim and does not skip an instruction leaves alone
hookFrame == <<hookConfig, regions, nz, allocMap, last, nops, sp>>

\* (mutant) the instruction is skipped and SP is left as it is
skipInstructionKeepsSP(a) == [pc |-> a + EmuSize(a), sp |-> sp]

\* skipInstruction at address a: PC is a + the size the emulator decoded, SP
\* moves by the SP change recorded at the next instruction head
skipInstruction(a) == [pc |-> a + EmuSize(a), sp |-> sp + get_sp_delta(next_head(a))]

\* self.stopEmulation(userData) with no later write of PC: the run ends
StopRun ==
    /\ enteredBlock' = FALSE
    /\ visitedTargets' = StopVisited(visitedTargets)
    /\ phase' = "ended"
    /\ lastHook' = [rule |-> "stop", addr |-> pc]
    /\ UNCHANGED <<pc, blockIdx, trace, cbLog, called, steered>>

\* (mutant) PC is forced to the next block but the block index is not advanced
ForceNextBlockNoAdvance ==
    /\ pc' = NextBlockStart
    /\ enteredBlock' = FALSE
    /\ phase' = "hook"
    /\ lastHook' = [rule |-> "force", addr |-> pc]
    /\ steered' = steered \cup {pc}
    /\ UNCHANGED <<blockIdx, visitedTargets, trace, cbLog, called>>

\* (mutant) the block index is advanced but PC is forced to the start of the
\* block the run is in
ForceNextBlockToCurrent ==
    /\ pc' = bbStart
    /\ blockIdx' = blockIdx + 1
    /\ enteredBlock' = FALSE
    /\ phase' = "hook"
    /\ lastHook' = [rule |-> "force", addr |-> pc]
    /\ steered' = steered \cup {pc}
    /\ UNCHANGED <<visitedTargets, trace, cbLog, called>>

\* "force PC to follow paths": PC := start of the next block of the path
ForceNextBlock ==
    /\ pc' = NextBlockStart
    /\ blockIdx' = blockIdx + 1
    /\ enteredBlock' = FALSE
    /\ phase' = "hook"
    /\ lastHook' = [rule |-> "force", addr |-> pc]
    /\ steered' = steered \cup {pc}
    /\ UNCHANGED <<visitedTargets, trace, cbLog, called>>

\* elif self._isBadBranch(userData): self.skipInstruction(userData); return
\* (jmp through a register whose value is not the address of an instruction)
HookBadBranch ==
    /\ InHook
    /\ print_insn_mnem(pc) = "jmp" /\ Insn[pc].reg
    /\ pc' = skipInstruction(pc).pc
    /\ sp' = skipInstruction(pc).sp
    /\ phase' = "hook"
    /\ lastHook' = [rule |-> "badbranch", addr |-> pc]
    /\ UNCHANGED <<blockIdx, enteredBlock, visitedTargets, trace, cbLog, called, steered>>
    /\ UNCHANGED <<hookConfig, memVars>>

\* if address == bbStart and self.enteredBlock is True
HookLoopReenter ==
    /\ InHook
    /\ LoopReentry(pc)
    /\ IF HasNextBlock THEN ForceNextBlock ELSE StopRun
    /\ UNCHANGED hookFrame

\* elif (address > bbEnd or address < bbStart)
HookOutOfBlock ==
    /\ InHook
    /\ ~LoopReentry(pc)
    /\ OutOfBlock(pc)
    /\ IF blockIdx + 1 >= Len(CurrentPath) THEN StopRun ELSE ForceNextBlock
    /\ UNCHANGED hookFrame

\* inside the block, "possibly a folded instruction or invalid instruction":
\* no mnemonic at address; bail out when address + size and address + 2 * size
\* have none either, else return and let the emulator execute
HookNoMnem ==
    /\ InHook
    /\ ~LoopReentry(pc) /\ ~OutOfBlock(pc)
    /\ print_insn_mnem(pc) = ""
    /\ IF print_insn_mnem(pc + EmuSize(pc)) = "" /\ print_insn_mnem(pc + EmuSize(pc) * 2) = ""
       THEN StopRun
       ELSE /\ enteredBlock' = (enteredBlock \/ pc = bbStart)
            /\ phase' = "exec"
            /\ lastHook' = [rule |-> "folded", addr |-> pc]
            /\ UNCHANGED <<pc, blockIdx, visitedTargets, trace, cbLog, called, steered>>
    /\ UNCHANGED hookFrame

\* "pc ended up in null memory"
HookNullMem ==
    /\ InHook
    /\ ~LoopReentry(pc) /\ ~OutOfBlock(pc)
    /\ print_insn_mnem(pc) # ""
    /\ IsNullMem(pc)
    /\ StopRun
    /\ UNCHANGED hookFrame

\* the hook gets as far as the target check; a run is cut when its
\* visitedTargets list is MaxVisited long
AtTargetCheck ==
    /\ InHook
    /\ ReachesTargetCheck(pc)
    /\ (TargetCheck(pc).hit => Len(visitedTargets) < MaxVisited)

\* the target check's effect on the callback log
Logged ==
    /\ lastHook' = [rule |-> IF TargetCheck(pc).hit THEN "hit" ELSE "pass", addr |-> pc]
    /\ cbLog' = TargetCheck(pc).log
    /\ called' = IF TargetCheck(pc).hit THEN called \cup {pc} ELSE called
    /\ UNCHANGED steered

\* an instruction that is neither a call nor a return
HookInsn ==
    LET tc == TargetCheck(pc)
        nx == AfterHook(tc.stop, FALSE, pc) IN
    /\ AtTargetCheck
    /\ ~IsCall(pc) /\ ~isRetInstruction(pc)
    /\ Logged
    /\ visitedTargets' = tc.visited
    /\ enteredBlock' = tc.entered
    /\ phase' = nx.phase
    /\ pc' = nx.pc
    /\ UNCHANGED <<blockIdx, trace>>
    /\ UNCHANGED hookFrame

\* (mutant) a return instruction stops the run
HookRetStops ==
    LET tc == TargetCheck(pc) IN
    /\ AtTargetCheck
    /\ isRetInstruction(pc)
    /\ cbLog' = tc.log
    /\ called' = IF tc.hit THEN called \cup {pc} ELSE called
    /\ lastHook' = [rule |-> "stop", addr |-> pc]
    /\ visitedTargets' = StopVisited(tc.visited)
    /\ enteredBlock' = FALSE
    /\ phase' = "ended"
    /\ UNCHANGED <<pc, blockIdx, trace, steered>>
    /\ UNCHANGED hookFrame

\* elif self.isRetInstruction(address): self.skipInstruction(userData)
HookRet ==
    LET tc == TargetCheck(pc)
        nx == AfterHook(tc.stop, TRUE, skipInstruction(pc).pc) IN
    /\ AtTargetCheck
    /\ isRetInstruction(pc)
    /\ Logged
    /\ visitedTargets' = tc.visited
    /\ enteredBlock' = tc.entered
    /\ phase' = nx.phase
    /\ pc' = nx.pc
    /\ sp' = skipInstruction(pc).sp
    /\ UNCHANGED <<blockIdx, trace>>
    /\ UNCHANGED <<hookConfig, memVars>>

\* a call whose user callback raises: the hook's except clause stops the run
HookCallRaise ==
    LET tc == TargetCheck(pc) IN
    /\ AtTargetCheck
    /\ IsCall(pc)
    /\ callHook
    /\ cbLog' = tc.log
    /\ called' = IF tc.hit THEN called \cup {pc} ELSE called
    /\ lastHook' = [rule |-> "raise", addr |-> pc]
    /\ visitedTargets' = IF targetVA \in SeqElems(tc.visited) THEN tc.visited
                         ELSE Append(tc.visited, targetVA)
    /\ enteredBlock' = FALSE
    /\ phase' = "ended"
    /\ UNCHANGED <<pc, blockIdx, trace, steered>>
    /\ UNCHANGED hookFrame

\* a call whose user callback changed PC to d: "don't skip instruction" (the
\* callback's PC stands), SP moves by the SP change recorded at d, return
HookCallRedirect(d) ==
    LET tc == TargetCheck(pc)
        nx == AfterHook(tc.stop, TRUE, d) IN
    /\ phase = "hook"
    /\ callHook
    /\ IsCall(pc)
    /\ d \in RedirectDests(pc)
    /\ AtTargetCheck
    /\ Logged
    /\ visitedTargets' = tc.visited
    /\ enteredBlock' = tc.entered
    /\ phase' = nx.phase
    /\ pc' = nx.pc
    /\ sp' = sp + get_sp_delta(d)
    /\ UNCHANGED <<blockIdx, trace>>
    /\ UNCHANGED <<hookConfig, memVars>>

\* a call whose user callback changed PC to d and then raised: the hook's
\* except clause asks for the stop, which the callback's write of PC undoes
HookCallRedirectRaise(d) ==
    LET tc == TargetCheck(pc)
        nx == AfterHook(TRUE, TRUE, d) IN
    /\ phase = "hook"
    /\ callHook
    /\ IsCall(pc)
    /\ d \in RedirectDests(pc)
    /\ AtTargetCheck
    /\ cbLog' = tc.log
    /\ called' = IF tc.hit THEN called \cup {pc} ELSE called
    /\ lastHook' = [rule |-> "raise", addr |-> pc]
    /\ visitedTargets' = StopVisited(tc.visited)
    /\ enteredBlock' = FALSE
    /\ phase' = nx.phase
    /\ pc' = nx.pc
    /\ UNCHANGED <<blockIdx, trace, steered>>
    /\ UNCHANGED hookFrame

\* a call the callback (if any) left alone:
\*   _handleApiHooks handles it and skips the instruction, or
\*   it is not the active target and is skipped, or
\*   it is the active target and PC is left where it is
HookCall ==
    LET tc == TargetCheck(pc)
        handled == hookApis /\ Insn[pc].api
        skip == handled \/ pc # targetVA
        nx == AfterHook(tc.stop, skip, skipInstruction(pc).pc) IN
    /\ AtTargetCheck
    /\ IsCall(pc)
    /\ Logged
    /\ visitedTargets' = tc.visited
    /\ enteredBlock' = tc.entered
    /\ phase' = nx.phase
    /\ pc' = nx.pc
    /\ sp' = IF skip THEN skipInstruction(pc).sp ELSE sp
    /\ \E v \in {IF handled THEN RunShim(ImageShim, ArgvOf(ImageShim), regions, nz, allocMap)
                 ELSE ShimNone(regions, nz, allocMap)} :
           /\ regions' = v.regions
           /\ nz' = v.nz
           /\ allocMap' = v.am
    /\ UNCHANGED <<blockIdx, trace, last, nops>>
    /\ UNCHANGED hookConfig

(***************************************************************************)
(* The emulator.                                                           *)
(***************************************************************************)
\* the instruction at PC refers to unmapped memory
Faults(a) == a \in DOMAIN MemRefs /\ ~IsMapped(MemRefs[a], regions)

\* the emulator meets the unmapped operand of the instruction at PC and calls
\* _hookMemInvalid, which maps a zero page there; the instruction is retried
EmuFault ==
    /\ phase = "exec"
    /\ Faults(pc)
    /\ \E page \in {pageAlign(MemRefs[pc])} : \E m \in {mem_map(page, PAGESIZE, regions)} :
           /\ regions' = m.regions
           /\ nz' = IF m.ok THEN Store(nz, page, StrData(0, PAGESIZE)) ELSE nz
    /\ UNCHANGED <<phase, pc, blockIdx, enteredBlock, visitedTargets, trace, cbLog, called,
                   lastHook, steered, allocMap, last, nops, sp>>
    /\ UNCHANGED hookConfig

\* the hook returned without stopping or moving PC: execute the instruction
EmuExec ==
    /\ phase = "exec"
    /\ ~Faults(pc)
    /\ \E n \in NextPCs(pc) : pc' = n
    /\ trace' = trace \cup {pc}
    /\ phase' = "hook"
    /\ UNCHANGED <<blockIdx, enteredBlock, visitedTargets, cbLog, called, lastHook, steered>>
    /\ UNCHANGED hookFrame

\* PC is the `until` address (the function's end): emu_start returns
EmuReachEnd ==
    /\ phase = "hook"
    /\ pc = funcEnd
    /\ phase' = "ended"
    /\ UNCHANGED <<pc, blockIdx, enteredBlock, visitedTargets, trace, cbLog, called, lastHook, steered>>
    /\ UNCHANGED hookFrame

(***************************************************************************)
(* emulateRange(startAddr, endAddr, callHook=..., skipCalls=...,           *)
(* hookApis=...) on the same helper, and _emulateRangeCodeHook, one action *)
(* per way through it.  The phases of a range run are "rhook" (the hook is *)
(* about to be called at PC), "rexec" (the emulator executes the           *)
(* instruction at PC) and "rended" (emu_start returned).  The image has no *)
(* mov of an import pointer, the hook's last case.                         *)
(***************************************************************************)
\* the addresses emulateRange is started at: the two-way function, the function
\* ending in a call, the indirect jmp of the switch function, the folded
\* function, the function that runs into zero-filled memory, and the calling
\* function from its start and from its third call
RangeStarts == {0, 35, 46, 52, 60, 70, 75}
\* the image says where every call of startAddr's function leads; a run from a
\* function of which it does not is made with skipCalls
KnownCalls(startAddr) ==
    \A a \in Heads : (get_func(a) = get_func(startAddr) /\ IsCall(a)) => Insn[a].dests # {}
\* the endAddr arguments: none, a plain instruction, calls, a return, an
\* instruction of a callee
RangeEnds == {None, 5, 47, 56, 71, 73, 77, 79}

\* self.size_pointer of a 32-bit x86 image: the bytes a call pushes
size_pointer == 4

\* what no action of a range run touches
rangeFrame == <<explorer, selfPaths, nq, res, callHook, hookApis, given, targetInfo, targetVA,
                iterPaths, pathIdx, blockIdx, enteredBlock, visitedTargets, called, steered,
                nops, resetEmuMem, hooks>>

\* userData, _prepEmuContext (registers zeroed, SP := self.stack), emu_start at
\* startAddr until funcEnd
EmulateRange(startAddr, endAddr, skipCalls) ==
    /\ phase = "setup"
    /\ given = 0
    /\ skipCalls \/ KnownCalls(startAddr)
    /\ rangeData' = [funcStart |-> Funcs[get_func(startAddr)].start_ea,
                     funcEnd |-> Funcs[get_func(startAddr)].end_ea,
                     skipCalls |-> skipCalls, endAddr |-> endAddr, ret |-> <<>>]
    /\ pc' = startAddr
    /\ sp' = InitStack
    /\ phase' = "rhook"
    /\ trace' = {}
    /\ cbLog' = <<>>
    /\ lastHook' = NoHook
    /\ hooks' = RegisterHooks(BeginCall(hooks, "emulateRange", FALSE, FALSE),
                              "_emulateRangeCodeHook", FALSE, FALSE)
    /\ UNCHANGED <<regions, nz, allocMap, last>>
    /\ UNCHANGED <<explorer, selfPaths, nq, res, callHook, hookApis, given, targetInfo, targetVA,
                   iterPaths, pathIdx, blockIdx, enteredBlock, visitedTargets, called, steered,
                   nops, resetEmuMem>>

InRangeHook == phase = "rhook" /\ pc # rangeData.funcEnd

\* if userData["endAddr"] is not None: if address == userData["endAddr"]
AtEndAddr(a) == rangeData.endAddr # None /\ a = rangeData.endAddr
\* self._isBadBranch(userData)
RangeBadBranch(a) == print_insn_mnem(a) = "jmp" /\ Insn[a].reg
\* self.isRetInstruction(address) and get_func_attr(address, FUNCATTR_START) ==
\* userData["funcStart"]
RetOfStartFunc(a) ==
    /\ isRetInstruction(a)
    /\ InImage(a)
    /\ Funcs[get_func(a)].start_ea = rangeData.funcStart
\* the hook gets past its stop and skip rules to the test for a call
ReachesCallCheck(a) ==
    /\ ~AtEndAddr(a)
    /\ ~RangeBadBranch(a)
    /\ ~IsNullMem(a)
    /\ ~RetOfStartFunc(a)

\* get_operand_type(address, 0) == 7 and the size_pointer bytes at
\* get_operand_value(address, 0) are zero: a near call into zero-filled memory
NearCallToEmpty(a) ==
    /\ ~Insn[a].reg
    /\ Insn[a].dests # {}
    /\ \A d \in Insn[a].dests : IsNullMem(d)

\* skipCalls is True or the call is a near call into zero-filled memory
SkipsCall(a) == rangeData.skipCalls \/ NearCallToEmpty(a)

\* self.stopEmulation(userData) in a range run with no write of PC
RangeStop(rule) ==
    /\ phase' = "rended"
    /\ lastHook' = [rule |-> rule, addr |-> pc]
    /\ UNCHANGED <<pc, sp, rangeData, trace, cbLog, regions, nz, allocMap, last>>
    /\ UNCHANGED rangeFrame

\* (mutant) the callback and the call handling run before the endAddr test
RangeHookEndAfterCall ==
    /\ InRangeHook
    /\ AtEndAddr(pc)
    /\ phase' = "rended"
    /\ lastHook' = [rule |-> "end", addr |-> pc]
    /\ cbLog' = IF IsCall(pc) /\ callHook THEN Append(cbLog, <<pc, trace>>) ELSE cbLog
    /\ pc' = IF IsCall(pc) /\ rangeData.skipCalls THEN skipInstruction(pc).pc ELSE pc
    /\ UNCHANGED <<sp, rangeData, trace, regions, nz, allocMap, last>>
    /\ UNCHANGED rangeFrame

\* "stop emulation if specified endAddr is reached"
RangeHookEnd ==
    /\ InRangeHook
    /\ AtEndAddr(pc)
    /\ RangeStop("end")

\* if self._isBadBranch(userData): self.skipInstruction(userData); return
RangeHookBadBranch ==
    /\ InRangeHook
    /\ ~AtEndAddr(pc)
    /\ RangeBadBranch(pc)
    /\ pc' = skipInstruction(pc).pc
    /\ sp' = skipInstruction(pc).sp
    /\ phase' = "rhook"
    /\ lastHook' = [rule |-> "badbranch", addr |-> pc]
    /\ UNCHANGED <<rangeData, trace, cbLog, regions, nz, allocMap, last>>
    /\ UNCHANGED rangeFrame

\* "stop annoying run ons if we end up somewhere we dont belong"
RangeHookNullMem ==
    /\ InRangeHook
    /\ ~AtEndAddr(pc) /\ ~RangeBadBranch(pc)
    /\ IsNullMem(pc)
    /\ RangeStop("null")

\* "stop emulation when returning from function emulation began in"
RangeHookRet ==
    /\ InRangeHook
    /\ ~AtEndAddr(pc) /\ ~RangeBadBranch(pc) /\ ~IsNullMem(pc)
    /\ RetOfStartFunc(pc)
    /\ RangeStop("ret")

\* an instruction that is not a call: the hook returns, the emulator executes it
RangeHookInsn ==
    /\ InRangeHook
    /\ ReachesCallCheck(pc)
    /\ ~IsCall(pc)
    /\ phase' = "rexec"
    /\ lastHook' = [rule |-> "pass", addr |-> pc]
    /\ UNCHANGED <<pc, sp, rangeData, trace, cbLog, regions, nz, allocMap, last>>
    /\ UNCHANGED rangeFrame

\* a call whose user callback raises: the hook's except clause stops the run
RangeHookCallRaise ==
    /\ InRangeHook
    /\ ReachesCallCheck(pc)
    /\ IsCall(pc)
    /\ callHook
    /\ phase' = "rended"
    /\ lastHook' = [rule |-> "raise", addr |-> pc]
    /\ cbLog' = Append(cbLog, <<pc, trace>>)
    /\ UNCHANGED <<pc, sp, rangeData, trace, regions, nz, allocMap, last>>
    /\ UNCHANGED rangeFrame

\* (mutant) SP moves by the SP change recorded after the call site
RangeHookCallRedirectSiteDelta(d) ==
    /\ InRangeHook
    /\ ReachesCallCheck(pc)
    /\ IsCall(pc)
    /\ callHook
    /\ d \in RedirectDests(pc)
    /\ pc' = d
    /\ sp' = skipInstruction(pc).sp
    /\ phase' = "rhook"
    /\ lastHook' = [rule |-> "redirect", addr |-> pc]
    /\ cbLog' = Append(cbLog, <<pc, trace>>)
    /\ UNCHANGED <<rangeData, trace, regions, nz, allocMap, last>>
    /\ UNCHANGED rangeFrame

\* a call whose user callback changed PC to d: "if the pc has been changed by
\* the hook, don't skip instruction", SP moves by the SP change recorded at d
RangeHookCallRedirect(d) ==
    /\ InRangeHook
    /\ ReachesCallCheck(pc)
    /\ IsCall(pc)
    /\ callHook
    /\ d \in RedirectDests(pc)
    /\ pc' = d
    /\ sp' = sp + get_sp_delta(d)
    /\ phase' = "rhook"
    /\ lastHook' = [rule |-> "redirect", addr |-> pc]
    /\ cbLog' = Append(cbLog, <<pc, trace>>)
    /\ UNCHANGED <<rangeData, trace, regions, nz, allocMap, last>>
    /\ UNCHANGED rangeFrame

\* a call whose user callback changed PC to d and then raised: the stop the
\* except clause asks for is undone by the callback's write of PC
RangeHookCallRedirectRaise(d) ==
    /\ InRangeHook
    /\ ReachesCallCheck(pc)
    /\ IsCall(pc)
    /\ callHook
    /\ d \in RedirectDests(pc)
    /\ pc' = d
    /\ phase' = "rhook"
    /\ lastHook' = [rule |-> "raise", addr |-> pc]
    /\ cbLog' = Append(cbLog, <<pc, trace>>)
    /\ UNCHANGED <<sp, rangeData, trace, regions, nz, allocMap, last>>
    /\ UNCHANGED rangeFrame

\* a call the callback (if any) left alone:
\*   _handleApiHooks handles it and skips the instruction, or
\*   it is skipped because skipCalls is True or it is a near call into
\*   zero-filled memory, or
\*   the hook returns and the emulator executes the call
RangeHookCall ==
    LET handled == hookApis /\ Insn[pc].api
        skip == handled \/ SkipsCall(pc) IN
    /\ InRangeHook
    /\ ReachesCallCheck(pc)
    /\ IsCall(pc)
    /\ pc' = IF skip THEN skipInstruction(pc).pc ELSE pc
    /\ sp' = IF skip THEN skipInstruction(pc).sp ELSE sp
    /\ phase' = IF skip THEN "rhook" ELSE "rexec"
    /\ lastHook' = [rule |-> IF handled THEN "shim" ELSE IF skip THEN "skip" ELSE "pass",
                    addr |-> pc]
    /\ cbLog' = IF callHook THEN Append(cbLog, <<pc, trace>>) ELSE cbLog
    /\ \E v \in {IF handled THEN RunShim(ImageShim, ArgvOf(ImageShim), regions, nz, allocMap)
                 ELSE ShimNone(regions, nz, allocMap)} :
           /\ regions' = v.regions
           /\ nz' = v.nz
           /\ allocMap' = v.am
    /\ UNCHANGED <<rangeData, trace, last>>
    /\ UNCHANGED rangeFrame

\* the emulator executes the instruction at PC: a call pushes its return
\* address and goes to its destination, a return pops it, anything else goes
\* to a successor
RangeExec ==
    /\ phase = "rexec"
    /\ IF IsCall(pc)
       THEN /\ \E d \in Insn[pc].dests : pc' = d
            /\ sp' = sp - size_pointer
            /\ rangeData' = [rangeData EXCEPT !.ret = Append(@, pc + EmuSize(pc))]
       ELSE IF isRetInstruction(pc)
       THEN /\ rangeData.ret # <<>>
            /\ pc' = rangeData.ret[Len(rangeData.ret)]
            /\ sp' = sp + size_pointer
            /\ rangeData' = [rangeData EXCEPT !.ret = SubSeq(@, 1, Len(@) - 1)]
       ELSE /\ \E n \in NextPCs(pc) : pc' = n
            /\ UNCHANGED <<sp, rangeData>>
    /\ trace' = trace \cup {pc}
    /\ phase' = "rhook"
    /\ UNCHANGED <<cbLog, lastHook, regions, nz, allocMap, last>>
    /\ UNCHANGED rangeFrame

\* PC is the `until` address (funcEnd): emu_start returns
RangeReachEnd ==
    /\ phase = "rhook"
    /\ pc = rangeData.funcEnd
    /\ phase' = "rended"
    /\ UNCHANGED <<pc, sp, rangeData, trace, cbLog, lastHook, regions, nz, allocMap, last>>
    /\ UNCHANGED rangeFrame

Next ==
    \/ \E t \in TargetCandidates : IterGetPath(t)
    \/ IterBegin
    \/ IterWhile
    \/ IterStartRun
    \/ IterForDone
    \/ IterEndRun
    \/ HookBadBranch
    \/ HookLoopReenter
    \/ HookOutOfBlock
    \/ HookNoMnem
    \/ HookNullMem
    \/ HookInsn
    \/ HookRet
    \/ HookCallRaise
    \/ \E d \in Heads : HookCallRedirect(d)
    \/ \E d \in Heads : HookCallRedirectRaise(d)
    \/ HookCall
    \/ EmuFault
    \/ EmuExec
    \/ EmuReachEnd
    \/ \E startAddr \in RangeStarts, endAddr \in RangeEnds, skipCalls \in BOOLEAN :
           EmulateRange(startAddr, endAddr, skipCalls)
    \/ RangeHookEnd
    \/ RangeHookBadBranch
    \/ RangeHookNullMem
    \/ RangeHookRet
    \/ RangeHookInsn
    \/ RangeHookCallRaise
    \/ \E d \in Heads : RangeHookCallRedirect(d)
    \/ \E d \in Heads : RangeHookCallRedirectRaise(d)
    \/ RangeHookCall
    \/ RangeExec
    \/ RangeReachEnd

Spec == Init /\ [][Next]_vars

(***************************************************************************)
(* Memory specification: allocations, fault pages and runtime shims on one *)
(* EmuHelper after reloadBinary.                                           *)
(***************************************************************************)
MaxOps == 2

InitMem ==
    /\ explorer = FreshExplorer
    /\ selfPaths = EmptyDict
    /\ nq = 0
    /\ res = NoResult
    /\ phase = "mem"
    /\ callHook = FALSE
    /\ hookApis = TRUE
    /\ given = 0
    /\ targetInfo = EmptyDict
    /\ targetVA = None
    /\ iterPaths = <<>>
    /\ pathIdx = 0
    /\ blockIdx = 0
    /\ enteredBlock = FALSE
    /\ visitedTargets = <<>>
    /\ pc = 11
    /\ trace = {}
    /\ cbLog = <<>>
    /\ called = {}
    /\ lastHook = NoHook
    /\ steered = {}
    /\ resetEmuMem = FALSE
    /\ InitMemory

\* what no memory operation touches
memFrame == <<explorer, selfPaths, nq, res, phase, callHook, hookApis, given, targetInfo, targetVA,
              iterPaths, pathIdx, blockIdx, enteredBlock, visitedTargets, trace, cbLog, called,
              lastHook, steered, resetEmuMem, rangeData, hooks>>

\* sizes and addresses a caller passes
AllocSizes == {0, 1, PAGESIZE, PAGESIZE + 1, MAX_ALLOC_SIZE + 1}
PreferredAddrs == {65536, 63488, 73744, 77824}

\* self.allocEmuMem(size) or self.allocEmuMem(size, addr); mem_map's exception
\* is the caller's
DoAlloc(size, addr) ==
    \E v \in {allocEmuMem(size, addr, regions)} :
    /\ nops < MaxOps
    /\ regions' = v.regions
    /\ last' = [MemNone EXCEPT !.op = "alloc", !.args = <<size, addr>>, !.ok = v.ok,
                               !.ret = IF v.ok THEN v.addr ELSE None,
                               !.map = IF v.ok THEN <<v.base, v.size>> ELSE <<>>,
                               !.honoured = v.honoured, !.before = regions]
    /\ nops' = nops + 1
    /\ UNCHANGED <<nz, allocMap, pc, sp>>
    /\ UNCHANGED memFrame

\* addresses of faulting accesses: the null page, the page between the image
\* and the stack, and an access that starts in the image's last bytes
FaultAddrs == {16, 77828, 77822}

\* (mutant) the page is mapped at the faulting address itself
HookMemInvalidUnaligned(address) ==
    \E m \in {mem_map(address, PAGESIZE, regions)} :
    /\ nops < MaxOps
    /\ \E n \in {1, 4} : ~RangeMapped(address, address + n, regions)
    /\ regions' = m.regions
    /\ nz' = IF m.ok THEN Store(nz, address, StrData(0, PAGESIZE)) ELSE nz
    /\ pc' = IF m.ok THEN pc ELSE pc + EmuSize(pc)
    /\ last' = [MemNone EXCEPT !.op = "fault", !.args = <<address>>, !.ok = TRUE, !.ret = TRUE,
                               !.map = IF m.ok THEN <<address, PAGESIZE>> ELSE <<>>,
                               !.before = regions]
    /\ nops' = nops + 1
    /\ UNCHANGED <<allocMap, sp>>
    /\ UNCHANGED memFrame

\* _hookMemInvalid for an access of 1 or 4 bytes at address that touches an
\* unmapped byte
HookMemInvalid(address) ==
    \E page \in {pageAlign(address)} : \E m \in {mem_map(page, PAGESIZE, regions)} :
    /\ nops < MaxOps
    /\ \E n \in {1, 4} : ~RangeMapped(address, address + n, regions)
    /\ regions' = m.regions
    /\ nz' = IF m.ok THEN Store(nz, page, StrData(0, PAGESIZE)) ELSE nz
    /\ pc' = IF m.ok THEN pc ELSE pc + EmuSize(pc)
    /\ last' = [MemNone EXCEPT !.op = "fault", !.args = <<address>>, !.ok = TRUE, !.ret = TRUE,
                               !.map = IF m.ok THEN <<page, PAGESIZE>> ELSE <<>>,
                               !.before = regions]
    /\ nops' = nops + 1
    /\ UNCHANGED <<allocMap, sp>>
    /\ UNCHANGED memFrame


\* _handleApiHooks for a call whose normalised name is in apiHooks: the shim
\* runs inside try/except, then skipInstruction moves PC past the call
ApiHook(op, argv, v) ==
    /\ nops < MaxOps
    /\ regions' = v.regions
    /\ nz' = v.nz
    /\ allocMap' = v.am
    /\ last' = [MemNone EXCEPT !.op = op, !.args = argv, !.ok = ~v.raised, !.ret = v.ret,
                               !.map = v.map, !.wr = v.wr, !.rd = v.rd, !.before = regions]
    /\ nops' = nops + 1
    /\ pc' = skipInstruction(pc).pc
    /\ sp' = skipInstruction(pc).sp
    /\ UNCHANGED memFrame

\* arguments the emulated code passes to the shims
ShimSizes == {0, PAGESIZE + 1, 536870912}
Pointers == {0, 69640, 81936}

Malloc(n) ==
    \E v \in {_allocMem1Hook(<<n>>, regions, nz, allocMap)} : ApiHook("malloc", <<n>>, v)
LocalAlloc(n) ==
    \E v \in {_allocMem2Hook(<<0, n>>, regions, nz, allocMap)} : ApiHook("LocalAlloc", <<0, n>>, v)
HeapAlloc(n) ==
    \E v \in {_allocMem3Hook(<<42, 0, n>>, regions, nz, allocMap)} : ApiHook("HeapAlloc", <<42, 0, n>>, v)
Calloc(n, m) ==
    \E v \in {_callocHook(<<n, m>>, regions, nz, allocMap)} : ApiHook("calloc", <<n, m>>, v)
Realloc(p, n) ==
    \E v \in {_reallocHook(<<p, n>>, regions, nz, allocMap)} : ApiHook("realloc", <<p, n>>, v)
HeapReAlloc(f, p, n) ==
    \E v \in {_heapReAllocHook(<<42, f, p, n>>, regions, nz, allocMap)} : ApiHook("HeapReAlloc", <<42, f, p, n>>, v)
VirtualAlloc(a, n) ==
    \E v \in {_virtualAllocHook(<<a, n>>, regions, nz, allocMap)} : ApiHook("VirtualAlloc", <<a, n>>, v)
Memcpy(d, s, n) ==
    \E v \in {_memcpyHook(<<d, s, n>>, regions, nz, allocMap)} : ApiHook("memcpy", <<d, s, n>>, v)
Strlen(p) ==
    \E v \in {_strlenHook(<<p>>, regions, nz, allocMap)} : ApiHook("strlen", <<p>>, v)
Strcpy(d, s) ==
    \E v \in {_strcpyHook(<<d, s>>, regions, nz, allocMap)} : ApiHook("strcpy", <<d, s>>, v)
Strncpy(d, s, n) ==
    \E v \in {_strncpyHook(<<d, s, n>>, regions, nz, allocMap)} : ApiHook("strncpy", <<d, s, n>>, v)
Strncpys(d, s, n) ==
    \E v \in {_strncpysHook(<<d, 64, s, n>>, regions, nz, allocMap)} : ApiHook("strncpy_s", <<d, 64, s, n>>, v)

\* (mutant) a call of a routine without a shim is skipped as well
HandleApiHooksSkipsAlways(funcName) ==
    \E n \in {normalize(funcName)} :
    /\ nops < MaxOps
    /\ nops' = nops + 1
    /\ \E v \in {IF n \in DOMAIN apiHooks
                 THEN RunShim(apiHooks[n], ArgvOf(apiHooks[n]), regions, nz, allocMap)
                 ELSE ShimNone(regions, nz, allocMap)} :
           /\ regions' = v.regions
           /\ nz' = v.nz
           /\ allocMap' = v.am
           /\ last' = [MemNone EXCEPT !.op = "call", !.name = funcName,
                                      !.shim = IF n \in DOMAIN apiHooks THEN apiHooks[n] ELSE "",
                                      !.args = IF n \in DOMAIN apiHooks THEN ArgvOf(apiHooks[n])
                                               ELSE <<>>,
                                      !.ok = ~v.raised, !.ret = v.ret, !.map = v.map,
                                      !.wr = v.wr, !.rd = v.rd, !.before = regions]
    /\ pc' = skipInstruction(pc).pc
    /\ sp' = skipInstruction(pc).sp
    /\ UNCHANGED memFrame

\* _handleApiHooks(address, argv, funcName, userData) for a call target named
\* funcName: False and no effect when the normalised name has no shim (the
\* record's shim is "" and its ret, the value written to the return register,
\* is None)
HandleApiHooks(funcName) ==
    \E n \in {normalize(funcName)} :
    /\ nops < MaxOps
    /\ nops' = nops + 1
    /\ IF n \notin DOMAIN apiHooks
       THEN /\ last' = [MemNone EXCEPT !.op = "call", !.name = funcName, !.before = regions]
            /\ UNCHANGED <<regions, nz, allocMap, pc, sp>>
       ELSE \E v \in {RunShim(apiHooks[n], ArgvOf(apiHooks[n]), regions, nz, allocMap)} :
            /\ regions' = v.regions
            /\ nz' = v.nz
            /\ allocMap' = v.am
            /\ last' = [MemNone EXCEPT !.op = "call", !.name = funcName, !.shim = apiHooks[n],
                                       !.args = ArgvOf(apiHooks[n]), !.ok = ~v.raised,
                                       !.ret = v.ret, !.map = v.map, !.wr = v.wr, !.rd = v.rd,
                                       !.before = regions]
            /\ pc' = skipInstruction(pc).pc
            /\ sp' = skipInstruction(pc).sp
    /\ UNCHANGED memFrame

\* the bytes of N that lie in [lo, hi)
KeepBytes(N, lo, hi) ==
    {<<Max(i[1], lo), Min(i[2], hi)>> : i \in {j \in N : j[1] < hi /\ j[2] > lo}}

\* resetEmulatorHeapAndStack on regions R: every region that does not begin at
\* self.baseAddr is unmapped, then _buildStack maps a new stack.
\* [ok, regions, addr]
resetEmulatorHeapAndStack(R) ==
    allocEmuMem(StackSize, None, {r \in R : r[1] = ImageBase})

\* eh.reloadBinary() between emulations; self.allocMap is not touched
ReloadBinary ==
    \E m \in {reloadBinary(regions)} :
    /\ nops < MaxOps
    /\ regions' = m.regions
    /\ nz' = m.nz
    /\ sp' = InitStack
    /\ last' = [MemNone EXCEPT !.op = "reloadBinary", !.ok = m.ok, !.before = regions]
    /\ UNCHANGED <<allocMap, nops, pc>>
    /\ UNCHANGED memFrame

\* eh.resetEmulatorHeapAndStack() between emulations; self.allocMap is not
\* touched
ResetHeapAndStack ==
    \E m \in {resetEmulatorHeapAndStack(regions)} :
    /\ nops < MaxOps
    /\ regions' = m.regions
    /\ nz' = KeepBytes(nz, ImageBase, pageAlign(ImageBase) + pageAlignUp(ImageEnd - ImageBase))
    /\ sp' = IF m.ok THEN m.addr + StackSize \div 2 ELSE sp
    /\ last' = [MemNone EXCEPT !.op = "resetHeapAndStack", !.ok = m.ok, !.before = regions]
    /\ UNCHANGED <<allocMap, nops, pc>>
    /\ UNCHANGED memFrame

NextMem ==
    \/ ReloadBinary
    \/ ResetHeapAndStack
    \/ \E size \in AllocSizes : \E addr \in PreferredAddrs \cup {None} : DoAlloc(size, addr)
    \/ \E a \in FaultAddrs : HookMemInvalid(a)
    \/ \E n \in ShimSizes : Malloc(n)
    \/ \E n \in ShimSizes : LocalAlloc(n)
    \/ \E n \in ShimSizes : HeapAlloc(n)
    \/ \E c \in {<<2, 3>>, <<65536, 8192>>} : Calloc(c[1], c[2])
    \/ \E p \in Pointers : \E n \in {1, 16384, 536870912} : Realloc(p, n)
    \/ \E f \in {0, 16} : \E p \in {0, 69640} : \E n \in {0, 536870912} : HeapReAlloc(f, p, n)
    \/ \E a \in {0, 73744, 77824} : \E n \in {1, 536870912} : VirtualAlloc(a, n)
    \/ \E d \in {0, 77820, 81920} : \E s \in {69648, 77820} : \E n \in {2, 8} : Memcpy(d, s, n)
    \/ \E p \in {0, 69648, 77808} : Strlen(p)
    \/ \E d \in {0, 77816, 77820} : \E s \in {69648, 77808} : Strcpy(d, s)
    \/ \E d \in {0, 77820} : \E n \in {0, 2, 8} : Strncpy(d, 69648, n)
    \/ \E d \in {0, 77820} : \E n \in {0, 2, 8} : Strncpys(d, 69648, n)
    \/ \E n \in CallNames : HandleApiHooks(n)

SpecMem == InitMem /\ [][NextMem]_vars

(***************************************************************************)
(* Hook specification: a sequence of emulateRange, emulateBytes and        *)
(* iterate calls on one EmuHelper, and the hooks each call leaves          *)
(* registered.  No hook callback registers or deletes a hook, so a call's  *)
(* emulation leaves the registrations as its hook_add calls made them.     *)
(***************************************************************************)
MaxCalls == 3

InitHooks ==
    /\ explorer = FreshExplorer
    /\ selfPaths = EmptyDict
    /\ nq = 0
    /\ res = NoResult
    /\ phase = "calls"
    /\ callHook = FALSE
    /\ hookApis = TRUE
    /\ given = 0
    /\ targetInfo = EmptyDict
    /\ targetVA = None
    /\ iterPaths = <<>>
    /\ pathIdx = 0
    /\ blockIdx = 0
    /\ enteredBlock = FALSE
    /\ visitedTargets = <<>>
    /\ pc = 0
    /\ trace = {}
    /\ cbLog = <<>>
    /\ called = {}
    /\ lastHook = NoHook
    /\ steered = {}
    /\ resetEmuMem = FALSE
    /\ InitMemory

\* what no hook registration touches
hooksFrame == <<selfPaths, nq, res, phase, callHook, hookApis, given, targetInfo, targetVA,
                iterPaths, pathIdx, blockIdx, enteredBlock, visitedTargets, pc, trace, cbLog,
                called, lastHook, steered, allocMap, last, nops, sp, resetEmuMem, rangeData>>

\* emulateRange(startAddr, instructionHook=..., memAccessHook=...)
CallEmulateRange(instructionHook, memAccessHook) ==
    /\ hooks.calls < MaxCalls
    /\ hooks' = RegisterHooks(BeginCall(hooks, "emulateRange", instructionHook, memAccessHook),
                              "_emulateRangeCodeHook", instructionHook, memAccessHook)
    /\ UNCHANGED <<explorer, regions, nz>>
    /\ UNCHANGED hooksFrame

\* emulateBytes default baseAddr
BytesBase == 4194304

\* emulateBytes(bytes, instructionHook=..., memAccessHook=...) with len(bytes) =
\* n: loadBytes maps and writes the bytes first, and the exception of mem_map
\* for an empty buffer leaves emulateBytes before resetEmuHooks
CallEmulateBytes(n, instructionHook, memAccessHook) ==
    \E v \in {allocEmuMem(n, BytesBase, regions)} :
    /\ hooks.calls < MaxCalls
    /\ regions' = v.regions
    /\ nz' = IF v.ok THEN Store(nz, v.addr, StrData(n, 0)) ELSE nz
    /\ hooks' = IF v.ok
                THEN RegisterHooks(BeginCall(hooks, "emulateBytes", instructionHook, memAccessHook),
                                   "_emulateBytesCodeHook", instructionHook, memAccessHook)
                ELSE BeginCall(hooks, "emulateBytes", instructionHook, memAccessHook)
    /\ UNCHANGED explorer
    /\ UNCHANGED hooksFrame

\* targets of the iterate calls: none, instructions of the diamond and of the
\* while loop, and an instruction of the block of the switch function that no
\* edge leads to
HookTargets == {None, 5, 11, 49}

\* iterate(target, cb, instructionHook=..., memAccessHook=...) with target None
\* or [t]: return at 157-158 and at 185-187 before the hooks are touched, else
\* resetEmuHooks and the hook_add calls at 198-209
CallIterate(t, instructionHook, memAccessHook) ==
    \E v \in {IF t = None THEN [found |-> FALSE, ex |-> explorer] ELSE getPath(t, explorer)} :
    /\ hooks.calls < MaxCalls
    /\ explorer' = v.ex
    /\ hooks' = IF v.found
                THEN RegisterHooks(BeginCall(hooks, "iterate", instructionHook, memAccessHook),
                                   "_guidedHook", instructionHook, memAccessHook)
                ELSE BeginCall(hooks, "iterate", instructionHook, memAccessHook)
    /\ UNCHANGED <<regions, nz>>
    /\ UNCHANGED hooksFrame

NextHooks ==
    \/ \E ih \in BOOLEAN : \E mh \in BOOLEAN : CallEmulateRange(ih, mh)
    \/ \E n \in {0, 1} : \E ih \in BOOLEAN : \E mh \in BOOLEAN : CallEmulateBytes(n, ih, mh)
    \/ \E t \in HookTargets : \E ih \in BOOLEAN : \E mh \in BOOLEAN : CallIterate(t, ih, mh)

SpecHooks == InitHooks /\ [][NextHooks]_vars

(***************************************************************************)
(* Properties of iterate and the guided hook.                              *)
(***************************************************************************)
Running == phase \in {"hook", "exec"}
NumCalls(log, a) == Cardinality({i \in 1..Len(log) : log[i][1] = a})
AtActiveTarget == InHook /\ ReachesTargetCheck(pc) /\ pc = targetVA
AtOtherTarget == InHook /\ ReachesTargetCheck(pc) /\ pc # targetVA /\ pc \in DOMAIN targetInfo
DriftOrLoop == InHook /\ (OutOfBlock(pc) \/ LoopReentry(pc))

\* C1: when the hooked address is the active target, the callback is invoked
\* for it and the run stops there: the target is in visitedTargets, no later
\* hook or instruction step of the run follows the hit, and the callback is
\* invoked exactly once for the target in the run -- whatever the instruction
\* at the target (plain, call with or without a shim, return).
C1_ActiveTargetHitStopsRun ==
    [][ /\ (AtActiveTarget => /\ cbLog' = Append(cbLog, <<pc, trace>>)
                              /\ targetVA \in SeqElems(visitedTargets'))
        /\ ((Running /\ NumCalls(cbLog, targetVA) > 0) => phase' = "ended")
        /\ (Running' => NumCalls(cbLog', targetVA) <= 1) ]_vars

\* the hook's steering rule applied: PC is the next block's start, the block
\* index advanced, enteredBlock cleared, nothing executed and no callback; or,
\* on the path's last block, the run abandoned
SteeredOrAbandoned ==
    IF HasNextBlock
    THEN /\ pc' = NextBlockStart
         /\ blockIdx' = blockIdx + 1
         /\ enteredBlock' = FALSE
         /\ phase' = "hook"
         /\ UNCHANGED <<trace, cbLog, visitedTargets>>
    ELSE /\ phase' = "ended"
         /\ UNCHANGED <<pc, trace, cbLog>>

\* C2 (as stated): a hook call at an address outside the current block, or at
\* the current block's start when the block was already entered, forces PC to
\* the next block of the path, or abandons the run on the last block.
C2_DriftIsSteered == [][DriftOrLoop => SteeredOrAbandoned]_vars

\* C2 (amended): the same, unless the hook's bad-branch guard, which runs
\* first, skips the instruction at the address.
C2_DriftIsSteeredUnlessBadBranch ==
    [][(DriftOrLoop /\ ~HookBadBranch) => SteeredOrAbandoned]_vars

\* the hook has just forced PC away from an address that is not the next
\* block's start
C2_Witness == Running /\ lastHook.rule = "force" /\ lastHook.addr # pc /\ pc = bbStart

C4_ActiveTargetIsHighest ==
    (phase = "for" /\ pathIdx = 0) =>
        /\ targetVA \in DOMAIN targetInfo
        /\ \A u \in DOMAIN targetInfo : u <= targetVA

\* two targets are pending and the higher one was chosen
C4_Witness ==
    /\ phase = "for" /\ pathIdx = 0
    /\ Cardinality(DOMAIN targetInfo) = 2
    /\ \E u \in DOMAIN targetInfo : u < targetVA

\* C5 (as stated): the run set never grows, and an entry leaves it only
\* because the callback was invoked for it.
C5_RemovedOnlyIfCalled ==
    [][phase # "setup" => /\ DOMAIN targetInfo' \subseteq DOMAIN targetInfo
                          /\ (DOMAIN targetInfo \ DOMAIN targetInfo') \subseteq called]_vars

\* C5 (amended): the run set never grows, and an entry leaves it only at the
\* end of a run in whose visitedTargets it is: the callback was invoked for
\* it, or it is the run's active target, for which the hook called
\* stopEmulation.
C5_RemovedOnlyIfVisited ==
    [][phase # "setup" =>
        /\ DOMAIN targetInfo' \subseteq DOMAIN targetInfo
        /\ \A t \in DOMAIN targetInfo \ DOMAIN targetInfo' :
              /\ phase = "ended"
              /\ t \in SeqElems(visitedTargets)
              /\ (t \in called \/ t = targetVA)]_vars

\* a run was abandoned and its active target left the run set although the
\* callback was never invoked for it
C5_Witness ==
    /\ phase = "for" /\ pathIdx > 0
    /\ targetVA \notin DOMAIN targetInfo
    /\ targetVA \notin called

\* C6: every run removes its active target from the run set, also when the
\* emulator reaches the function's end without a stop from the hook.
C6_EveryRunRemovesActiveTarget ==
    [][(phase = "ended" /\ phase' # "ended") => targetVA \notin DOMAIN targetInfo']_vars

\* the diamond function: entry block 0, B1 = block 1 at 2..3, B2 = block 2 at 4,
\* return block R = block 3 at 5..6
DiamondTargets == {5, 6}
DiamondB1 == {2, 3}
DiamondRun == targetVA \in DiamondTargets /\ phase \in {"hook", "exec", "ended"}

Succs(f, b) == SeqElems(FlowChart(f)[b].succs)

\* the blocks of f reachable from the blocks of S along successor edges
RECURSIVE ReachFrom(_, _)
ReachFrom(f, S) ==
    LET T == S \cup UNION {Succs(f, b) : b \in S} IN
    IF T = S THEN S ELSE ReachFrom(f, T)

\* the block of f that holds address a
BlockOf(f, a) ==
    CHOOSE b \in DOMAIN FlowChart(f) :
        FlowChart(f)[b].start_ea <= a /\ a < FlowChart(f)[b].end_ea

\* block b of f lies on a cycle of the chart
InLoop(f, b) == b \in ReachFrom(f, Succs(f, b))

\* p is a walk of f's chart from the entry block
IsWalk(f, p) ==
    /\ p # <<>>
    /\ FlowChart(f)[p[1]].start_ea = Funcs[f].start_ea
    /\ \A i \in 1..(Len(p) - 1) : p[i + 1] \in Succs(f, p[i])

NoRepeat(p) == \A i, j \in 1..Len(p) : p[i] = p[j] => i = j

\* the last query was getPaths for a target inside a loop body, maxPaths >= 2
LoopQuery ==
    /\ res.op = "getPaths"
    /\ res.maxPaths >= 2
    /\ InLoop(get_func(res.target), BlockOf(get_func(res.target), res.target))

\* the last query was made in a function of a single basic block
SingleBlockQuery ==
    /\ res.op # "none"
    /\ Cardinality(DOMAIN FlowChart(get_func(res.target))) = 1

C9_UnreachableTargetNotFound ==
    (/\ res.op = "getPath"
     /\ LET f == get_func(res.target) IN
        BlockOf(f, res.target) \notin ReachFrom(f, {BlockOf(f, Funcs[f].start_ea)}))
    => (~res.found /\ res.paths = <<>>)

\* getPath was asked for an address of the switch function's unconnected block
C9_Witness == res.op = "getPath" /\ res.target = 49 /\ ~res.found

\* C10: in a function of a single basic block, whatever the block's type,
\* getPaths returns an empty path list and getPath for an address of the
\* block returns the one-element path of that block.
C10_SingleBlockPaths ==
    SingleBlockQuery =>
        /\ res.op = "getPaths" => res.paths = <<>>
        /\ res.op = "getPath" => (res.found /\ res.paths = << <<0>> >>)

\* C11: the list getPaths(target, maxPaths) returns holds no two equal paths,
\* has at most maxPaths elements, and each of its paths ends at the target's
\* block, which occurs nowhere earlier in the path.
C11_PathListShape ==
    res.op = "getPaths" =>
        LET b == BlockOf(get_func(res.target), res.target) IN
        /\ \A i, j \in 1..Len(res.paths) : res.paths[i] = res.paths[j] => i = j
        /\ Len(res.paths) <= res.maxPaths
        /\ \A i \in 1..Len(res.paths) :
              LET p == res.paths[i] IN
              /\ p # <<>>
              /\ p[Len(p)] = b
              /\ \A k \in 1..(Len(p) - 1) : p[k] # b

\* a query with maxPaths = 1 on the diamond, which has two paths to the
\* return block, returned one path
C11_Witness ==
    /\ res.op = "getPaths" /\ res.target = 5 /\ res.maxPaths = 1
    /\ Len(res.paths) = 1

(***************************************************************************)
(* Properties of the memory manager.                                       *)
(***************************************************************************)
Disjoint(r, q) == r[2] < q[1] \/ q[2] < r[1]
\* the byte range [lo, lo + n) meets region r
Meets(lo, n, r) == n > 0 /\ lo <= r[2] /\ lo + n - 1 >= r[1]
IsAlloc == last.op = "alloc"

\* C12: no two mapped regions overlap, and an allocation made without a
\* preferred address, of any positive size, succeeds, returns a page-aligned
\* address and maps there a region that meets no region mapped before it.
C12_RegionsDisjointFreeAllocAligned ==
    /\ \A r, q \in regions : r # q => Disjoint(r, q)
    /\ (IsAlloc /\ last.args[2] = None /\ last.args[1] > 0) =>
          /\ last.ok
          /\ last.ret % PAGESIZE = 0
          /\ last.map[1] = last.ret
          /\ <<last.ret, last.ret + last.map[2] - 1>> \in regions
          /\ \A r \in last.before : ~Meets(last.ret, last.map[2], r)

\* an allocation without a preferred address was made after a fault page and
\* the regions of memory are the image, the stack, the page and the new region
C12_Witness ==
    /\ IsAlloc /\ last.args[2] = None /\ last.ok
    /\ Cardinality(regions) = 4

\* C13: an allocation at a preferred address whose page range meets an
\* existing region maps its region at the base of address-independent
\* allocation, which differs from the page of the preferred address, and
\* returns that base plus the preferred address's offset in its page.
C13_CollisionKeepsOffset ==
    (/\ IsAlloc /\ last.args[2] # None
     /\ \E r \in last.before :
           Meets(pageAlign(last.args[2]), pageAlignUp(last.args[1]), r))
    => /\ last.ok
       /\ last.map[1] = _findUnusedMemRegion(last.before)
       /\ last.map[1] # pageAlign(last.args[2])
       /\ last.ret = last.map[1] + (last.args[2] % PAGESIZE)

\* an allocation was asked at an address inside the image, 16 bytes into its page
C13_Witness ==
    /\ IsAlloc /\ last.args[2] = 73744 /\ last.ok
    /\ last.ret % PAGESIZE = 16

\* C14: an allocation at a preferred address returns the address unchanged
\* and maps the region at its page exactly when the page range neither
\* overlaps nor encloses an existing region.
C14_PreferredHonouredIffNoOverlap ==
    (IsAlloc /\ last.args[2] # None /\ last.args[1] > 0) =>
        LET free == \A r \in last.before :
                        ~Meets(pageAlign(last.args[2]), pageAlignUp(last.args[1]), r)
        IN /\ last.ok
           /\ free <=> (last.ret = last.args[2] /\ last.map[1] = pageAlign(last.args[2]))

\* C17: the fault hook maps one zero-filled page at the page boundary that
\* holds the faulting address and leaves PC alone; only when the mapping
\* raises does it set PC to the current instruction's address plus its size
\* and map nothing; in both cases it returns True.
C17_FaultMapsOnePage ==
    [][(nops' = nops + 1 /\ last'.op = "fault") =>
        LET a == last'.args[1]
            page == <<a - (a % PAGESIZE), a - (a % PAGESIZE) + PAGESIZE - 1>> IN
        /\ last'.ret = TRUE
        /\ \/ /\ regions' = regions \cup {page}
              /\ page \notin regions
              /\ \A i \in nz' : i[2] <= page[1] \/ i[1] > page[2]
              /\ pc' = pc
           \/ /\ \E r \in regions : ~Disjoint(r, page)
              /\ regions' = regions
              /\ nz' = nz
              /\ pc' = pc + EmuSize(pc)]_vars

\* a fault in the unmapped page between the image and the stack was served
C17_Witness ==
    /\ last.op = "fault" /\ last.args[1] = 77828
    /\ <<77824, 81919>> \in regions

\* the size an allocation request asks for
ReqSize ==
    CASE last.op \in {"alloc", "malloc"} -> last.args[1]
      [] last.op \in {"LocalAlloc", "realloc", "VirtualAlloc"} -> last.args[2]
      [] last.op = "HeapAlloc" -> last.args[3]
      [] last.op = "calloc" -> last.args[1] * last.args[2]
      [] last.op = "HeapReAlloc" -> last.args[4]
      [] OTHER -> 0

\* C15: a request for more than MAX_ALLOC_SIZE bytes, made through
\* allocEmuMem or an allocator shim, does not fail and maps a region of at most
\* MAX_ALLOC_SIZE bytes.
C15_RequestAboveCeilingIsCapped ==
    ReqSize > MAX_ALLOC_SIZE =>
        /\ last.ok
        /\ last.map # <<>> => last.map[2] <= MAX_ALLOC_SIZE

CopyOps == {"memcpy", "strlen", "strcpy", "strncpy", "strncpy_s"}

\* the bytes [x[1], x[2]) lie in the region that holds their first byte
InOneRegion(x) ==
    x[1] < x[2] => \E r \in regions : r[1] <= x[1] /\ x[2] - 1 <= r[2]

\* C16: no copy or length shim writes or reads bytes beyond the end of the
\* mapped region that holds the pointer it writes to or reads from.
C16_ShimsStayInRegion ==
    last.op \in CopyOps =>
        /\ last.wr # <<>> => InOneRegion(last.wr)
        /\ \A x \in last.rd : InOneRegion(x)

IsRealloc == last.op \in {"realloc", "HeapReAlloc"}
ReallocPtr == IF last.op = "realloc" THEN last.args[1] ELSE last.args[3]
InPlaceOnly == last.op = "HeapReAlloc" /\ last.args[2] = HEAP_REALLOC_IN_PLACE_ONLY
CappedReq == Min(ReqSize, MAX_ALLOC_SIZE)

\* C20 as stated: a realloc-like shim whose pointer lies in an existing
\* region maps a new region sized to the capped requested size, copies
\* min(existing size, requested size) bytes to it and returns its address; with
\* a pointer in no region it maps a fresh region of the requested size.
C20_ReallocCopiesMin ==
    (IsRealloc /\ ~InPlaceOnly) =>
        /\ last.map # <<>>
        /\ last.map[2] = pageAlignUp(CappedReq)
        /\ last.ret = last.map[1]
        /\ \A r \in last.before :
              (r[1] <= ReallocPtr /\ ReallocPtr <= r[2]) =>
                  last.wr = <<last.ret, last.ret + Min(r[2] - r[1] + 1, ReqSize)>>

\* C20 amended: when getEmuMemRegion finds the pointer's region (any byte of
\* a region but its last), the new region is sized to the larger of that
\* region's size and the capped requested size, lies at the base of
\* address-independent allocation, receives the region's whole contents from
\* the region's first byte (at most MAX_ALLOC_SIZE bytes), and its base is
\* returned; otherwise a fresh region of the capped requested size is mapped
\* and returned, or, for a request of zero bytes, nothing is mapped and no value
\* is returned.  HeapReAlloc with HEAP_REALLOC_IN_PLACE_ONLY maps nothing and
\* returns 0.
C20_ReallocKeepsRegionSize ==
    IsRealloc =>
        IF InPlaceOnly THEN last.ret = 0 /\ last.map = <<>> /\ regions = last.before
        ELSE IF \E r \in last.before : r[1] <= ReallocPtr /\ ReallocPtr < r[2]
        THEN LET r == CHOOSE q \in last.before : q[1] <= ReallocPtr /\ ReallocPtr < q[2]
                 size == r[2] - r[1] + 1
                 k == Min(size, MAX_ALLOC_SIZE) IN
             /\ last.ok
             /\ last.map = <<_findUnusedMemRegion(last.before), pageAlignUp(Max(size, CappedReq))>>
             /\ last.ret = last.map[1]
             /\ last.wr = <<last.ret, last.ret + k>>
             /\ last.rd = {<<r[1], r[1] + k>>}
             /\ Data(nz, last.ret, k) = Data(nz, r[1], k)
        ELSE IF CappedReq > 0
        THEN /\ last.ok
             /\ last.map = <<_findUnusedMemRegion(last.before), pageAlignUp(CappedReq)>>
             /\ last.ret = last.map[1]
             /\ last.wr = <<>>
        ELSE ~last.ok /\ last.ret = None /\ regions = last.before

\* realloc(p, 1) with p in the two-page image mapped a two-page region that
\* holds the image's 5-byte string
C20_Witness ==
    /\ last.op = "realloc" /\ last.args = <<69640, 1>>
    /\ last.map # <<>> /\ last.map[2] = 2 * PAGESIZE
    /\ <<last.ret + 16, last.ret + 21>> \in nz

(***************************************************************************)
(* Exceptions inside the guided hook.                                      *)
(***************************************************************************)
\* C18: an exception raised while the hook handles an instruction, the user's
\* call callback included, is caught in the hook and stops the run: the
\* emulator hands the hook no further instruction of that run.
C18_ExceptionStopsRun ==
    [][(HookCallRaise \/ \E d \in Heads : HookCallRedirectRaise(d)) => phase' = "ended"]_vars

(***************************************************************************)
(* Shim lookup.                                                            *)
(***************************************************************************)
\* C19: for every registered name N, a call whose target is named N, _N,
\* j_N, N_<digits>, N_l or _N_0 is handled by the shim registered for N.
C19_DecoratedNamesDispatch ==
    \A n \in DOMAIN apiHooks :
        (last.op = "call" /\ last.name \in Decorated(n)) => last.shim = apiHooks[n]

\* the call target _strncpy_s_0 was handled by strncpy_s's shim
C19_Witness ==
    /\ last.op = "call"
    /\ last.name = <<"_">> \o strncpy_s \o <<"_", "0">>
    /\ last.shim = "_strncpysHook"

(***************************************************************************)
(* Calls and returns in the hooks.                                         *)
(***************************************************************************)
\* the hook is called at a call instruction that lies inside the current block
\* of the path and is not the active target
AtOtherCallInBlock ==
    /\ InHook
    /\ ~OutOfBlock(pc)
    /\ IsCall(pc)
    /\ pc # targetVA

\* PC is the instruction after the call, not the callee, and SP has moved by
\* the SP change recorded at that instruction
SteppedOverCall ==
    /\ pc' = pc + EmuSize(pc)
    /\ pc' = next_head(pc)
    /\ pc' \notin Insn[pc].dests
    /\ sp' = sp + get_sp_delta(next_head(pc))

AtRetInBlock ==
    /\ InHook
    /\ ~OutOfBlock(pc)
    /\ isRetInstruction(pc)

\* C22: in a guided run every return instruction reached inside the current
\* path block is skipped: the hook sets PC to the following instruction and the
\* run is not stopped.
C22_ReturnSkipped ==
    [][AtRetInBlock => (pc' = pc + EmuSize(pc) /\ phase' = "hook")]_vars

\* the return at 48 has been skipped: PC is 49 and the run goes on
C22_Witness ==
    /\ phase = "hook"
    /\ lastHook.addr = 48
    /\ lastHook.rule \in {"hit", "pass"}
    /\ pc = 49

(***************************************************************************)
(* C23.  In both controllers, when the user's call callback changes PC at  *)
(* a call instruction and returns, the hook leaves PC at the callback's    *)
(* value, adds to SP the SP change recorded at that new PC (not the one of *)
(* the call site), runs no runtime shim and maps, unmaps and writes        *)
(* nothing.                                                                *)
(***************************************************************************)
RedirectHonoured(d) ==
    /\ pc' = d
    /\ sp' = sp + get_sp_delta(d)
    /\ regions' = regions
    /\ nz' = nz
    /\ allocMap' = allocMap

C24_EndAddrStopsFirst ==
    [][(phase = "rhook" /\ AtEndAddr(pc))
          => /\ phase' = "rended"
             /\ pc' = pc
             /\ sp' = sp
             /\ cbLog' = cbLog
             /\ regions' = regions
             /\ nz' = nz
             /\ allocMap' = allocMap]_vars

\* a run with a call callback and hookApis, stopped at the call at 77, which a
\* shim would have handled
C24_Witness ==
    /\ phase = "rended"
    /\ callHook /\ hookApis
    /\ rangeData.endAddr = 77
    /\ lastHook = [rule |-> "end", addr |-> 77]
    /\ pc = 77
    /\ 75 \in trace

(***************************************************************************)
(* C25.  A range run steps over every call whose destination is            *)
(* zero-filled memory, whatever skipCalls is and whatever the operand form *)
(* of the call: when the hook has handled such a call, PC is the           *)
(* instruction following it.                                               *)
(***************************************************************************)
CallToEmpty(a) ==
    /\ IsCall(a)
    /\ Insn[a].dests # {}
    /\ \A d \in Insn[a].dests : IsNullMem(d)

C25_EmptyCallSkipped ==
    [][(RangeHookCall /\ CallToEmpty(pc)) => pc' = pc + EmuSize(pc)]_vars

(***************************************************************************)
(* C26.  With resetEmuMem true, every path attempt starts with exactly the *)
(* reloaded image region and a fresh stack region mapped: nothing an       *)
(* earlier run allocated or mapped on a fault remains.  With resetEmuMem   *)
(* false, no step unmaps a region, so what an earlier run mapped is still  *)
(* mapped in the next run.                                                 *)
(***************************************************************************)
C26_ResetPerRun ==
    [][/\ (IterStartRun /\ resetEmuMem) => regions' = InitRegions
       /\ ~resetEmuMem => regions \subseteq regions']_vars

\* resetEmuMem is true and the run for target 5 starts after the run for target
\* 11, in which the shim of the call at 11 allocated a region (no call callback
\* stood in its way)
C26_Witness ==
    /\ resetEmuMem
    /\ hookApis /\ ~callHook
    /\ phase = "hook"
    /\ lastHook = NoHook
    /\ targetVA = 5
    /\ 11 \in called
    /\ regions = InitRegions

(***************************************************************************)
(* C27.  An allocation without a preferred address is placed page-aligned, *)
(* strictly above every mapped region, every segment end and 0x10000, and  *)
(* no further than one page above the lowest page-aligned address above    *)
(* them; when the highest of them is the last byte of a mapped region it   *)
(* is exactly one page above that lowest address.                          *)
(***************************************************************************)
\* the highest of: the last byte of every region of R, the segment ends, 0x10000
HighestUsed(R) == SetMax({HeapFloor} \cup {r[2] : r \in R} \cup SegmentEnds)
\* the lowest page-aligned address above m
LowestAlignedAbove(m) == pageAlign(m) + PAGESIZE
FreeAlloc == IsAlloc /\ last.args[2] = None /\ last.ok

FreshPaths(t, m) == getPaths(t, m, FreshExplorer, EmptyDict).paths

C28_CacheKeptAndTransparent ==
    [][/\ \A k \in DOMAIN selfPaths : k \in DOMAIN selfPaths' /\ selfPaths'[k] = selfPaths[k]
       /\ (/\ nq' = nq + 1
           /\ res'.op = "getPaths"
           /\ Funcs[get_func(res'.target)].start_ea \in DOMAIN selfPaths)
              => res'.paths = FreshPaths(res'.target, res'.maxPaths)]_vars

(***************************************************************************)
(* C29.  Every path a getPaths or getPath query returns starts at the      *)
(* entry block of the target's function, ends at the target's block, goes  *)
(* from each block to one of its successors in the function's flow chart,  *)
(* and holds no block id twice.                                            *)
(***************************************************************************)
\* p is a walk without repeats through the flow chart of f from its entry block
\* to block b
IsSimpleWalk(p, f, b) ==
    /\ p # <<>>
    /\ \A i \in 1..Len(p) : p[i] \in DOMAIN FlowChart(f)
    /\ p[1] = getStartBB(f)
    /\ p[Len(p)] = b
    /\ \A i \in 1..(Len(p) - 1) : p[i + 1] \in SeqElems(FlowChart(f)[p[i]].succs)
    /\ \A i, j \in 1..Len(p) : i # j => p[i] # p[j]

C29_PathsAreSimpleWalks ==
    res.op \in {"getPath", "getPaths"} =>
        \A i \in 1..Len(res.paths) :
            IsSimpleWalk(res.paths[i], get_func(res.target),
                         getBlockIdByVA(res.target, get_func(res.target)))

(***************************************************************************)
(* C30.  _handleApiHooks for a call target whose normalised name has no    *)
(* shim reports "not handled" and leaves PC, SP, the return register, the  *)
(* regions and the contents of memory as they were; for a name that has a  *)
(* shim the call is handled by that shim and PC is moved past the call,    *)
(* also when the shim raised.                                              *)
(***************************************************************************)
C30_UnhandledNoEffectHandledSkips ==
    [][(nops' = nops + 1 /\ last'.op = "call") =>
          IF normalize(last'.name) \in DOMAIN apiHooks
          THEN /\ last'.shim = apiHooks[normalize(last'.name)]
               /\ pc' = pc + EmuSize(pc)
          ELSE /\ last'.shim = ""
               /\ last'.ret = None
               /\ pc' = pc
               /\ sp' = sp
               /\ regions' = regions
               /\ nz' = nz
               /\ allocMap' = allocMap]_vars

\* the call of _strncpy_s was handled by a shim that raised, and PC is past
\* the call at 11
C30_Witness ==
    /\ last.op = "call"
    /\ last.name = <<"_">> \o strncpy_s
    /\ last.shim = "_strncpysHook"
    /\ ~last.ok
    /\ pc = 13

C32_DeleteVisitedNeverFails ==
    /\ phase = "ended" =>
          /\ \A i, j \in 1..Len(visitedTargets) :
                 i # j => visitedTargets[i] # visitedTargets[j]
          /\ \A i \in 1..Len(visitedTargets) : visitedTargets[i] \in DOMAIN targetInfo
    /\ phase # "raised"

\* C33: every record of self.allocMap names an address that is mapped, and a
\* VirtualAlloc call for a recorded address returns the recorded address.
C33_RecordsStayMapped ==
    /\ \A a \in DOMAIN allocMap : IsMapped(allocMap[a][1], regions)
    /\ (last.op = "VirtualAlloc" /\ last.ok /\ last.args[1] \in DOMAIN allocMap)
          => last.ret = allocMap[last.args[1]][1]

(***************************************************************************)
(* Hook registrations.                                                     *)
(***************************************************************************)
\* the hooks a call registers: the engine's instruction hook, the invalid-memory
\* hook and the interrupt hook, and the user's hooks the call was given
ExpectedHooks(c) ==
    IF c.call = 0 THEN {}
    ELSE {<<"code", CASE c.op = "iterate" -> "_guidedHook"
                      [] c.op = "emulateRange" -> "_emulateRangeCodeHook"
                      [] OTHER -> "_emulateBytesCodeHook", c.call>>,
          <<"mem_unmapped", "_hookMemInvalid", c.call>>,
          <<"intr", "_hookInterrupt", c.call>>}
         \cup (IF c.instructionHook THEN {<<"code", "instructionHook", c.call>>} ELSE {})
         \cup (IF c.memAccessHook THEN {<<"mem_access", "memAccessHook", c.call>>} ELSE {})
RegisteredHooks == {<<r.type, r.cb, r.call>> : r \in hooks.registered}

\* C34 as stated: after every call the registered hooks are exactly those of
\* the most recent call, and none of an earlier call.
C34_HooksOfLastCall ==
    /\ \A r \in hooks.registered : r.call = hooks.calls
    /\ hooks.inst.call = hooks.calls => RegisteredHooks = ExpectedHooks(hooks.inst)
    /\ Cardinality(hooks.registered) = Cardinality(RegisteredHooks)

\* C34 (amended): the registered hooks are exactly those of the most recent call
\* that reached its hook registration, each registered once; a call that
\* returned or raised before resetEmuHooks changed nothing.
C34_HooksOfLastRegisteringCall ==
    /\ RegisteredHooks = ExpectedHooks(hooks.inst)
    /\ Cardinality(hooks.registered) = Cardinality(RegisteredHooks)
    /\ {hooks.h_codehook, hooks.h_userhook, hooks.h_memaccesshook, hooks.h_memhook,
        hooks.h_inthook} \ {None} = {r.h : r \in hooks.registered}

\* the second call, an iterate with an instruction hook only, follows a call
\* that registered both user hooks: four hooks are registered, all of the
\* second call
C34_Witness ==
    /\ phase = "calls"
    /\ hooks.calls = 2
    /\ hooks.inst.call = 2
    /\ hooks.inst.op = "iterate"
    /\ hooks.inst.instructionHook /\ ~hooks.inst.memAccessHook
    /\ hooks.handles = 9
    /\ Cardinality(hooks.registered) = 4

(***************************************************************************)
(* Region queries.                                                         *)
(***************************************************************************)
\* the first and last byte of every region, their neighbours, and address 0
ProbeAddrs(R) ==
    {0} \cup UNION {{r[1] - 1, r[1], r[1] + 1, r[2] - 1, r[2], r[2] + 1} : r \in R}

\* C35: for every address of a mapped region, its last byte included,
\* isValidEmuPtr is true and getEmuMemRegion returns that region as (base, end)
\* with base <= a < end; for an address of no region they return False and
\* None; the two queries agree.
C35_QueriesMatchRegions ==
    \A a \in ProbeAddrs(regions) :
        LET g == getEmuMemRegion(a, regions) IN
        /\ IsMapped(a, regions) =>
              /\ isValidEmuPtr(a, regions)
              /\ g # NoRegion
              /\ <<g[1], g[2] - 1>> \in regions
              /\ g[1] <= a /\ a < g[2]
        /\ ~IsMapped(a, regions) => (~isValidEmuPtr(a, regions) /\ g = NoRegion)
        /\ isValidEmuPtr(a, regions) <=> g # NoRegion

(***************************************************************************)
(* Independence of path queries.                                           *)
(***************************************************************************)
\* the cache entry getPaths creates on a new EmuHelper
FreshCache(t, m) == getPaths(t, m, FreshExplorer, EmptyDict).cache

\* C36: a getPaths query on a function that is not cached returns, and caches,
\* what the same query returns and caches on a new EmuHelper, whatever getPath
\* and getPaths queries came before it.
C36_UncachedQueryIndependent ==
    [][(/\ nq' = nq + 1
        /\ res'.op = "getPaths"
        /\ Funcs[get_func(res'.target)].start_ea \notin DOMAIN selfPaths)
          => /\ res'.paths = FreshPaths(res'.target, res'.maxPaths)
             /\ selfPaths'[Funcs[get_func(res'.target)].start_ea]
                    = FreshCache(res'.target, res'.maxPaths)[Funcs[get_func(res'.target)].start_ea]]_vars

(***************************************************************************)
(* The returned address and the mapped region.                             *)
(***************************************************************************)
\* C37: after allocEmuMem(size, addr) with size > 0 returned r, every byte of
\* [r, r + size) lies in the region the call mapped.
C37_ReturnedRangeInNewRegion ==
    (last.op = "alloc" /\ last.ok /\ last.args[1] > 0) =>
        /\ last.map[1] <= last.ret
        /\ last.ret + last.args[1] <= last.map[1] + last.map[2]

(***************************************************************************)
(* The block index during a run.                                           *)
(***************************************************************************)
\* the start address of the block at index i of the path being pursued
PathBlockStart(i) == Flow(ActiveFunc)[iterPaths[pathIdx + 1][i + 1]][1]

\* C38: during a guided run the block index is an index of the path being
\* pursued, it never decreases, and it grows only by one, in a hook step that
\* forces PC to the start of the path's block at the new index.
C38_BlockIdxFollowsPath ==
    [][(phase \in {"hook", "exec"}) =>
          /\ 0 <= blockIdx /\ blockIdx < Len(iterPaths[pathIdx + 1])
          /\ (phase' \in {"hook", "exec", "ended"}) => blockIdx' >= blockIdx
          /\ (phase' \in {"hook", "exec", "ended"} /\ blockIdx' # blockIdx) =>
                /\ phase = "hook"
                /\ blockIdx' = blockIdx + 1
                /\ blockIdx' < Len(iterPaths[pathIdx + 1])
                /\ pc' = PathBlockStart(blockIdx')
                /\ lastHook'.rule = "force"]_vars

\* a run that was forced twice is in the third block of its path
C38_Witness ==
    /\ phase \in {"hook", "exec"}
    /\ blockIdx = 2
    /\ Len(iterPaths[pathIdx + 1]) >= 3
    /\ lastHook.rule = "force"
    /\ pc = PathBlockStart(2)

(***************************************************************************)
(* Completeness of getPath.                                                *)
(***************************************************************************)
\* the blocks of f the exploration can step onto from the blocks of S: the
\* successors of a terminating block are not visited
RECURSIVE ExploredFrom(_, _)
ExploredFrom(f, S) ==
    LET T == S \cup UNION {Succs(f, b) : b \in {c \in S : ~isTerminatingBB(f, c)}} IN
    IF T = S THEN S ELSE ExploredFrom(f, T)

TargetBlock == getBlockIdByVA(res.target, get_func(res.target))
EntryBlock == getStartBB(get_func(res.target))

\* C39 as stated: getPath finds a path whenever the target's block is reachable
\* from the entry block along successor edges.
C39_ReachableTargetFound ==
    (res.op = "getPath" /\ TargetBlock \in ReachFrom(get_func(res.target), {EntryBlock}))
        => res.found

\* C39 (amended): getPath finds a path whenever the target's block is reachable
\* from the entry block along successor edges that leave blocks which are not
\* terminating, on a new explorer and on one that earlier queries have used.
C39_ExploredTargetFound ==
    (res.op = "getPath" /\ TargetBlock \in ExploredFrom(get_func(res.target), {EntryBlock}))
        => /\ res.found
           /\ res.paths[1][1] = EntryBlock
           /\ res.paths[1][Len(res.paths[1])] = TargetBlock

\* a target in the body of the while loop is found after a query that found no
\* path has left its exploration state behind
C39_Witness ==
    /\ res.op = "getPath"
    /\ res.target = 14
    /\ res.found
    /\ res.paths = << <<0, 1, 2>> >>
    /\ nq >= 2
    /\ explorer.idx > 0

====
